---- MODULE Spec2Model ----
(***************************************************************************)
(* TOS management PWA: the client's local store (TOSDatabase, IndexedDB),  *)
(* its offline mutation log (the pendingUpdates object store), the service *)
(* worker's background sync, and the ranked search.                        *)
(*                                                                         *)
(* Strings whose characters matter (object-store keys, stock identifiers,  *)
(* contractors, queries) are sequences of UTF-16 code units; field names   *)
(* and field values that are only stored and compared for equality are     *)
(* TLA+ strings.                                                           *)
(***************************************************************************)
EXTENDS Integers, Sequences, FiniteSets, TLC

VARIABLES
    records,      \* object store 'tosRecords': key ID -> record
    pending,      \* object store 'pendingUpdates': key id -> PendingUpdate
    now,          \* the value Date.now() returns
    last,         \* outcome of the latest TOSDatabase call (what its promise settled with)
    generated,    \* history: the PendingUpdates built so far, in order: id, field, whether stored
    online,       \* navigator.onLine as the client sees it
    remote,       \* the authoritative store behind the REST API: ID -> record
    remoteLog,    \* history: the field updates the remote store has acknowledged
    confirmed,    \* history: the field edits confirmed in the UI
    sRecords,     \* ranked search: the records handed to the search
    sQuery,       \* ranked search: the query string
    sRanked,      \* ranked search: the sorted {record, priority} list the search built
    sResult,      \* ranked search: the list the search returned
    sDone,        \* ranked search: whether a search has run
    sOp,          \* ranked search: which implementation ran
    sFilters,     \* ranked search: the filters handed to the backend's search
    sTotal,       \* ranked search: the total the backend's search reported
    mockData,     \* backend: MockTOSModel.data
    isConnected,  \* backend: DatabaseConnection.isConnected
    pool,         \* backend: DatabaseConnection.pool ("null" or "pool")
    retryCount,   \* backend: DatabaseConnection.retryCount
    timers,       \* backend: the connect() retries scheduled with setTimeout
    reachable,    \* backend: whether the SQL Server answers
    outages,      \* history: the number of times the SQL Server went away
    bLast,        \* backend: outcome of the latest backend call
    apiCalls,     \* the TOSApiClient calls made so far: method, timer, how each settled
    tasks,        \* the TOSManager handlers started so far: loadRecords, handleSearch
    filteredRecords, \* TOSManager state: whose results are displayed
    connecting    \* backend: the connect() calls awaiting sql.connect

vars == <<records, pending, now, last, generated, online, remote, remoteLog,
          confirmed, sRecords, sQuery, sRanked, sResult, sDone, sOp, sFilters, sTotal,
          mockData, isConnected, pool, retryCount, timers, reachable, outages, bLast,
          apiCalls, tasks, filteredRecords, connecting>>

dbVars == <<records, pending, now, last, generated>>
clientVars == <<online, remote, remoteLog, confirmed>>
searchVars == <<sRecords, sQuery, sRanked, sResult, sDone, sOp, sFilters, sTotal>>
connVars == <<isConnected, pool, retryCount, timers>>
backendVars == <<mockData, isConnected, pool, retryCount, timers, reachable, outages, bLast>>
inFlightVars == <<apiCalls, tasks, filteredRecords, connecting>>

(***************************************************************************)
(* Bounds of the model.                                                    *)
(***************************************************************************)
\* number of PendingUpdate objects built in one behaviour
MaxEdits == 2
\* how far Date.now() advances past StartTime
MaxTicks == 1
\* ranked search: the number of records in the store searched
MaxStore == 3
\* ranked search: the length of the query typed
MaxQueryLen == 3
\* a two-digit stand-in for the 13-digit millisecond clock: every reading has
\* the same number of digits, as Date.now() has between 2001 and 2286
StartTime == 10

MaxTime == StartTime + MaxTicks

(***************************************************************************)
(* Strings as sequences of code units.                                     *)
(***************************************************************************)
Max(a, b) == IF a > b THEN a ELSE b
Min(a, b) == IF a < b THEN a ELSE b

\* Number -> decimal string, as a template literal formats ${n}
RECURSIVE ToDigits(_)
ToDigits(n) == IF n < 10 THEN <<48 + n>> ELSE ToDigits(n \div 10) \o <<48 + (n % 10)>>

\* the code units of the field names
FieldChars(field) ==
    CASE field = "SHIFT" -> <<83, 72, 73, 70, 84>>
      [] field = "STOCK_STATUS" -> <<83, 84, 79, 67, 75, 95, 83, 84, 65, 84, 85, 83>>
      [] field = "CONTRACTOR" -> <<67, 79, 78, 84, 82, 65, 67, 84, 79, 82>>

\* IndexedDB key order on strings: code unit by code unit, a proper prefix first
RECURSIVE StrLess(_, _)
StrLess(a, b) ==
    IF b = <<>> THEN FALSE
    ELSE IF a = <<>> THEN TRUE
    ELSE IF Head(a) # Head(b) THEN Head(a) < Head(b)
    ELSE StrLess(Tail(a), Tail(b))

(***************************************************************************)
(* The data.                                                               *)
(***************************************************************************)
\* PendingUpdate.field as typed; nothing checks it at run time
MutableFields == {"SHIFT", "STOCK_STATUS"}

\* the field names a caller passes to updateRecord
FieldInputs == MutableFields \cup {"CONTRACTOR"}

\* SHIFT_OPTIONS and STOCK_STATUS_OPTIONS, two of each
ShiftOptions == {"Day Shift", "Night Shift"}
StatusOptions == {"Active", "Full"}

\* the values a caller passes to updateRecord, which checks none of them
ValueInputs == {"Day Shift", "Active"}

\* SAMPLE_TOS_DATA, its first two records
SampleData ==
    (1 :> [ID |-> 1, CONTRACTOR |-> "ABC Mining Co", DATE |-> "2025-01-15",
           SHIFT |-> "Day Shift", STOCK_ID |-> "BB.D.5348", STOCK_STATUS |-> "Active"])
    @@
    (2 :> [ID |-> 2, CONTRACTOR |-> "XYZ Corp", DATE |-> "2025-01-15",
           SHIFT |-> "Night Shift", STOCK_ID |-> "CC.A.5348.01", STOCK_STATUS |-> "Full"])

\* the record ids a caller passes: the stored ones and one that is not stored
IdInputs == DOMAIN SampleData \cup {3}

NoCall == [op |-> "none", id |-> 0, field |-> "", value |-> "", result |-> "none", key |-> <<>>]

\* mockData, its first two records
MockData ==
    << [ID |-> 1, CONTRACTOR |-> "ABC Mining Co", DATE |-> "2024-01-15",
        SHIFT |-> "Day Shift", STOCK_ID |-> "BB.D.5348", STOCK_STATUS |-> "Active"],
       [ID |-> 2, CONTRACTOR |-> "XYZ Contractors", DATE |-> "2024-01-15",
        SHIFT |-> "Night Shift", STOCK_ID |-> "CC.A.5348.01", STOCK_STATUS |-> "Full"] >>

NoBackendCall ==
    [op |-> "none", args |-> <<>>, up |-> TRUE, outcome |-> "none", source |-> "none",
     status |-> 0, error |-> "", value |-> <<>>]

\* the backend as the other specifications leave it: started with the SQL Server answering
BackendIdle ==
    /\ mockData = MockData
    /\ isConnected = TRUE
    /\ pool = "pool"
    /\ retryCount = 0
    /\ timers = 0
    /\ reachable = TRUE
    /\ outages = 0
    /\ bLast = NoBackendCall

\* filters = {}: every filter absent (undefined, '' and 0 are all falsy)
\* nothing displayed yet: useState([])
NoDisplay == [op |-> "none", query |-> "", source |-> "none"]

\* no call and no handler in flight
InFlightIdle ==
    /\ apiCalls = << >>
    /\ tasks = << >>
    /\ filteredRecords = NoDisplay
    /\ connecting = 0

NoFilters == [contractor |-> <<>>, status |-> "", limit |-> 0, offset |-> 0]

(***************************************************************************)
(* TOSDatabase: the record store and the offline mutation log.             *)
(***************************************************************************)
\* `${id}-${field}-${Date.now()}`
MakeId(id, field, t) == ToDigits(id) \o <<45>> \o FieldChars(field) \o <<45>> \o ToDigits(t)

\* the assignment forgotten: the record is written back as it was read
SetField_Dropped(record, field, newValue) == record

\* record[field] = newValue
SetField(record, field, newValue) == [record EXCEPT ![field] = newValue]

\* the value written recorded as the old value too
NewPendingUpdate_OldIsNew(id, field, oldValue, newValue, t1, t2) ==
    [id |-> MakeId(id, field, t1), recordId |-> id, field |-> field,
     oldValue |-> newValue, newValue |-> newValue, timestamp |-> t2, synced |-> FALSE]

\* the PendingUpdate object updateRecord builds; t1 and t2 are its two clock readings
NewPendingUpdate(id, field, oldValue, newValue, t1, t2) ==
    [id |-> MakeId(id, field, t1), recordId |-> id, field |-> field,
     oldValue |-> oldValue, newValue |-> newValue, timestamp |-> t2, synced |-> FALSE]

\* a get that makes up an empty record for an absent key
StoreGet_Default(store, key) ==
    IF key \in DOMAIN store THEN {store[key]}
    ELSE {[ID |-> key, CONTRACTOR |-> "", DATE |-> "", SHIFT |-> "", STOCK_ID |-> "",
           STOCK_STATUS |-> ""]}

\* IDBObjectStore.get: the stored value, or nothing (the empty set) for an absent key
StoreGet(store, key) == IF key \in DOMAIN store THEN {store[key]} ELSE {}

\* IDBObjectStore.put: insert or overwrite under the value's key
StorePut(store, key, value) ==
    [k \in DOMAIN store \cup {key} |-> IF k = key THEN value ELSE store[k]]

\* IDBObjectStore.add fails with ConstraintError when the key is taken
AddFails(store, key) == key \in DOMAIN store

\* an add that replaces the store's content by the new entry
StoreAdd_Replace(store, entry) == (entry.id :> entry)

\* IDBObjectStore.add: the new store, given that the key is free
StoreAdd(store, entry) == StorePut(store, entry.id, entry)

\* store.clear() in place of store.delete(id)
StoreDelete_Clear(store, key) == << >>

\* IDBObjectStore.delete: removing an absent key succeeds and changes nothing
StoreDelete(store, key) == [k \in DOMAIN store \ {key} |-> store[k]]

\* the keys in descending order
RECURSIVE SortedKeys_Desc(_)
SortedKeys_Desc(keys) ==
    IF keys = {} THEN <<>>
    ELSE LET k == CHOOSE x \in keys : \A y \in keys \ {x} : StrLess(y, x)
         IN  <<k>> \o SortedKeys_Desc(keys \ {k})

\* the keys of a store in IndexedDB key order
RECURSIVE SortedKeys(_)
SortedKeys(keys) ==
    IF keys = {} THEN <<>>
    ELSE LET k == CHOOSE x \in keys : \A y \in keys \ {x} : StrLess(x, y)
         IN  <<k>> \o SortedKeys(keys \ {k})

\* the record ids of a store in ascending order
RECURSIVE SortedIds(_)
SortedIds(ids) ==
    IF ids = {} THEN <<>>
    ELSE LET k == CHOOSE x \in ids : \A y \in ids : x <= y
         IN  <<k>> \o SortedIds(ids \ {k})

\* store.getAll() on 'tosRecords'
getAllRecords ==
    LET ks == SortedIds(DOMAIN records) IN [i \in 1..Len(ks) |-> records[ks[i]]]

\* store.getAll() on 'pendingUpdates'
getPendingUpdates ==
    LET ks == SortedKeys(DOMAIN pending) IN [i \in 1..Len(ks) |-> pending[ks[i]]]

\* what a call's promise settled with; a rejection carries the error and the
\* record id, a resolution the whole call
Settled(op, id, field, value, result, key) ==
    [op |-> op, id |-> id, field |-> field, value |-> value, result |-> result, key |-> key]

\* updateRecord's readwrite transaction, the paths that reject before the
\* PendingUpdate is built; they read the record id only
updateRecordRejects(id) ==
    LET got == StoreGet(records, id) IN
    \/ \* tosStore.get(id) finds nothing: reject(new Error('Record not found'))
       /\ got = {}
       /\ last' = Settled("updateRecord", id, "", "", "RecordNotFound", <<>>)
       /\ UNCHANGED <<records, pending, now, generated>>
    \/ \* tosStore.put(record) fails: the transaction aborts, reject(updateRequest.error)
       /\ got # {}
       /\ last' = Settled("updateRecord", id, "", "", "PutError", <<>>)
       /\ UNCHANGED <<records, pending, now, generated>>

\* the same path with a failed add that leaves the put in place
updateRecordPuts_NoRollback(id, field, newValue) ==
    LET got == StoreGet(records, id) IN
    /\ got # {}
    /\ Len(generated) < MaxEdits
    /\ LET record == CHOOSE r \in got : TRUE
           oldValue == record[field]
           pendingUpdate == NewPendingUpdate(id, field, oldValue, newValue, now, now)
       IN  /\ UNCHANGED now
           /\ records' = StorePut(records, id, SetField(record, field, newValue))
           /\ IF AddFails(pending, pendingUpdate.id)
              THEN /\ last' = Settled("updateRecord", id, field, newValue,
                                      "ConstraintError", pendingUpdate.id)
                   /\ generated' = Append(generated, [id |-> pendingUpdate.id, field |-> field,
                                                   added |-> FALSE])
                   /\ UNCHANGED pending
              ELSE /\ pending' = StoreAdd(pending, pendingUpdate)
                   /\ generated' = Append(generated, [id |-> pendingUpdate.id, field |-> field,
                                                   added |-> TRUE])
                   /\ last' = Settled("updateRecord", id, field, newValue,
                                      "resolved", pendingUpdate.id)

\* updateRecord's readwrite transaction, the path where the put succeeds and
\* the PendingUpdate is built
updateRecordPuts(id, field, newValue) ==
    LET got == StoreGet(records, id) IN
    /\ got # {}
    /\ Len(generated) < MaxEdits
    /\ LET record == CHOOSE r \in got : TRUE
           oldValue == record[field]
           \* both Date.now() readings fall in the same callback
           pendingUpdate == NewPendingUpdate(id, field, oldValue, newValue, now, now)
       IN  /\ UNCHANGED now
           /\ IF AddFails(pending, pendingUpdate.id)
              THEN \* pendingStore.add: ConstraintError; the error aborts the
                   \* transaction and the put is rolled back
                   /\ last' = Settled("updateRecord", id, field, newValue,
                                      "ConstraintError", pendingUpdate.id)
                   /\ generated' = Append(generated, [id |-> pendingUpdate.id, field |-> field,
                                                   added |-> FALSE])
                   /\ UNCHANGED <<records, pending>>
              ELSE /\ records' = StorePut(records, id, SetField(record, field, newValue))
                   /\ pending' = StoreAdd(pending, pendingUpdate)
                   /\ generated' = Append(generated, [id |-> pendingUpdate.id, field |-> field,
                                                   added |-> TRUE])
                   /\ last' = Settled("updateRecord", id, field, newValue,
                                      "resolved", pendingUpdate.id)

\* updateRecord's transaction over both stores, and what its promise settles with
updateRecordTx(id, field, newValue) ==
    \/ updateRecordRejects(id)
    \/ updateRecordPuts(id, field, newValue)

\* tosDatabase.updateRecord called directly, with any id, field and value
updateRecord ==
    /\ \E id \in IdInputs :
          \/ updateRecordRejects(id)
          \/ \E field \in FieldInputs, newValue \in ValueInputs :
                updateRecordPuts(id, field, newValue)
    /\ UNCHANGED clientVars
    /\ UNCHANGED searchVars
    /\ UNCHANGED backendVars
    /\ UNCHANGED inFlightVars

\* clearPendingUpdate: store.delete(id)
clearPendingUpdate(id) ==
    /\ pending' = StoreDelete(pending, id)
    /\ last' = Settled("clearPendingUpdate", 0, "", "", "resolved", id)
    /\ UNCHANGED <<records, now, generated>>
    /\ UNCHANGED clientVars
    /\ UNCHANGED searchVars
    /\ UNCHANGED backendVars
    /\ UNCHANGED inFlightVars

\* the clock moves on between two calls
Tick ==
    /\ now < MaxTime
    /\ now' = now + 1
    /\ UNCHANGED <<records, pending, last, generated>>
    /\ UNCHANGED clientVars
    /\ UNCHANGED searchVars
    /\ UNCHANGED backendVars
    /\ UNCHANGED inFlightVars

\* the ids a caller passes to clearPendingUpdate: those of the PendingUpdates built
\* so far (queued or already cleared) and one that was never built
KeyInputs == {generated[i].id : i \in DOMAIN generated} \cup {MakeId(3, "SHIFT", StartTime)}

\* the state once init() and initializeWithSampleData() have run
Init ==
    /\ records = SampleData
    /\ pending = << >>
    /\ now = StartTime
    /\ last = NoCall
    /\ generated = << >>
    /\ online = TRUE
    /\ remote = SampleData
    /\ remoteLog = {}
    /\ confirmed = {}
    /\ sRecords = << >>
    /\ sQuery = << >>
    /\ sRanked = << >>
    /\ sResult = << >>
    /\ sDone = FALSE
    /\ sOp = "none"
    /\ sFilters = NoFilters
    /\ sTotal = 0
    /\ BackendIdle /\ InFlightIdle

Next ==
    \/ updateRecord
    \/ \E k \in KeyInputs : clearPendingUpdate(k)
    \/ Tick

\* the callers of TOSDatabase, in any order
Spec == Init /\ [][Next]_vars

(***************************************************************************)
(* The client: the edit dialog, the service worker's background sync and   *)
(* the REST client.                                                        *)
(***************************************************************************)
\* a field edit: what a PendingUpdate asks the remote store to do
Edit(recordId, field, value) == [recordId |-> recordId, field |-> field, value |-> value]

EditOf(p) == Edit(p.recordId, p.field, p.newValue)

\* the options the edit dialog offers for a field
Options(field) == IF field = "SHIFT" THEN ShiftOptions ELSE StatusOptions

\* handleEditConfirm, then the confirmation dialog's handleUpdateConfirm: the
\* local updateRecord, then UI state only; no remote call, online or not
handleUpdateConfirm(id, field, editValue) ==
    /\ id \in DOMAIN records
    /\ editValue # records[id][field]
    /\ updateRecordTx(id, field, editValue)
    /\ confirmed' = IF last'.result = "resolved"
                    THEN confirmed \cup {Edit(id, field, editValue)}
                    ELSE confirmed
    /\ UNCHANGED <<online, remote, remoteLog>>
    /\ UNCHANGED searchVars
    /\ UNCHANGED backendVars
    /\ UNCHANGED inFlightVars

\* syncData: every PendingUpdate read is logged and deleted; a delete that
\* fails is caught and its entry stays. Nothing is sent to the backend.
syncData ==
    \E failed \in SUBSET DOMAIN pending :
        /\ pending' = [k \in failed |-> pending[k]]
        /\ UNCHANGED <<records, now, last, generated>>
        /\ UNCHANGED clientVars
        /\ UNCHANGED searchVars
        /\ UNCHANGED backendVars
        /\ UNCHANGED inFlightVars

\* the service worker's 'sync' listener; the browser fires the event once the
\* device has connectivity
syncEvent(tag) ==
    /\ online
    /\ tag = "background-sync"
    /\ syncData

\* TOSApiClient.updateTOSRecord (PUT /tos/:id): the backend writes the field
\* and acknowledges, or the call throws (timeout, network, error response)
updateTOSRecord(id, field, value) ==
    /\ \/ /\ online
          /\ id \in DOMAIN remote
          /\ remote' = [remote EXCEPT ![id] = SetField(remote[id], field, value)]
          /\ remoteLog' = remoteLog \cup {Edit(id, field, value)}
       \/ UNCHANGED <<remote, remoteLog>>
    /\ UNCHANGED <<online, confirmed>>
    /\ UNCHANGED dbVars
    /\ UNCHANGED searchVars
    /\ UNCHANGED backendVars
    /\ UNCHANGED inFlightVars

\* the browser's offline and online events
GoOffline ==
    /\ online
    /\ online' = FALSE
    /\ UNCHANGED <<remote, remoteLog, confirmed>>
    /\ UNCHANGED dbVars
    /\ UNCHANGED searchVars
    /\ UNCHANGED backendVars
    /\ UNCHANGED inFlightVars

GoOnline ==
    /\ ~online
    /\ online' = TRUE
    /\ UNCHANGED <<remote, remoteLog, confirmed>>
    /\ UNCHANGED dbVars
    /\ UNCHANGED searchVars
    /\ UNCHANGED backendVars
    /\ UNCHANGED inFlightVars

\* The client's handlers. updateTOSRecord is the only operation of the client
\* that writes to the remote store; no handler calls it, so it is offered here
\* to any caller, for the edits the user has confirmed.
ClientNext ==
    \/ \E id \in DOMAIN SampleData, field \in MutableFields :
          \E v \in Options(field) : handleUpdateConfirm(id, field, v)
    \/ syncEvent("background-sync")
    \/ \E e \in confirmed : updateTOSRecord(e.recordId, e.field, e.value)
    \/ GoOffline
    \/ GoOnline
    \/ Tick

ClientSpec == Init /\ [][ClientNext]_vars

\* connectivity returns, and the browser then delivers the pending sync event
FairClientSpec ==
    /\ ClientSpec
    /\ WF_vars(GoOnline)
    /\ SF_vars(syncEvent("background-sync"))

\* C1: a Pending Update leaves the pending store only when the remote store
\* has acknowledged its field update; otherwise it stays queued.
C1_ClearedOnlyAfterAck ==
    [][\A k \in DOMAIN pending \ DOMAIN pending' : EditOf(pending[k]) \in remoteLog]_vars

\* C2: every field edit confirmed in the UI is eventually applied to the
\* authoritative store.
C2_EditsReachRemote ==
    \A id \in DOMAIN SampleData, field \in MutableFields, v \in ShiftOptions \cup StatusOptions :
        [](Edit(id, field, v) \in confirmed => <>(Edit(id, field, v) \in remoteLog))

(***************************************************************************)
(* TOSDatabase.searchRecords: the ranked search over the local store.      *)
(***************************************************************************)
IsSpace(c) == c = 32

\* String.prototype.trim
RECURSIVE TrimStart(_)
TrimStart(str) ==
    IF str # <<>> /\ IsSpace(Head(str)) THEN TrimStart(Tail(str)) ELSE str

RECURSIVE TrimEnd(_)
TrimEnd(str) ==
    IF str # <<>> /\ IsSpace(str[Len(str)]) THEN TrimEnd(SubSeq(str, 1, Len(str) - 1)) ELSE str

Trim(str) == TrimEnd(TrimStart(str))

\* String.prototype.toLowerCase
LowerChar(c) == IF c \in 65..90 THEN c + 32 ELSE c
ToLowerCase(str) == [i \in 1..Len(str) |-> LowerChar(str[i])]

\* String.prototype.startsWith and includes
StartsWith(str, q) == Len(q) <= Len(str) /\ SubSeq(str, 1, Len(q)) = q
Includes(str, q) ==
    \E k \in 0..(Len(str) - Len(q)) : SubSeq(str, k + 1, k + Len(q)) = q

\* str[i] with i counted from 0; past the end it is undefined (-1 here)
CharAt(str, i) == IF i < Len(str) THEN str[i + 1] ELSE -1

Abs(n) == IF n < 0 THEN 0 - n ELSE n

\* the loop of calculateSimpleDistance from index i with the count so far
RECURSIVE DistanceLoop(_, _, _, _, _)
DistanceLoop(str1, str2, i, maxLength, distance) ==
    IF i >= maxLength THEN distance
    ELSE LET d == IF CharAt(str1, i) # CharAt(str2, i) THEN distance + 1 ELSE distance
         IN  IF d > 2 THEN 99 ELSE DistanceLoop(str1, str2, i + 1, maxLength, d)

\* the comparison stopped at the end of the shorter string
calculateSimpleDistance_ShorterOnly(str1, str2) ==
    IF Abs(Len(str1) - Len(str2)) > 2 THEN 99
    ELSE DistanceLoop(str1, str2, 0, IF Len(str1) < Len(str2) THEN Len(str1) ELSE Len(str2), 0)

\* TOSDatabase.calculateSimpleDistance
calculateSimpleDistance(str1, str2) ==
    IF Abs(Len(str1) - Len(str2)) > 2 THEN 99
    ELSE DistanceLoop(str1, str2, 0, Max(Len(str1), Len(str2)), 0)

\* the prefix and substring tests taken in the wrong order
Priority_SubstringFirst(record, query) ==
    LET recordStockId == ToLowerCase(record.STOCK_ID)
        contractor == ToLowerCase(record.CONTRACTOR)
    IN  IF recordStockId = query THEN 1
        ELSE IF Includes(recordStockId, query) THEN 3
        ELSE IF StartsWith(recordStockId, query) THEN 2
        ELSE IF Includes(contractor, query) THEN 4
        ELSE IF calculateSimpleDistance(recordStockId, query) <= 2 /\ Len(query) > 2 THEN 5
        ELSE 0

\* the fuzzy level taken for a query of any length
Priority_NoLengthGuard(record, query) ==
    LET recordStockId == ToLowerCase(record.STOCK_ID)
        contractor == ToLowerCase(record.CONTRACTOR)
    IN  IF recordStockId = query THEN 1
        ELSE IF StartsWith(recordStockId, query) THEN 2
        ELSE IF Includes(recordStockId, query) THEN 3
        ELSE IF Includes(contractor, query) THEN 4
        ELSE IF calculateSimpleDistance(recordStockId, query) <= 2 THEN 5
        ELSE 0

\* the priority the forEach callback gives a record; 0 when no level matches
Priority(record, query) ==
    LET recordStockId == ToLowerCase(record.STOCK_ID)
        contractor == ToLowerCase(record.CONTRACTOR)
    IN  IF recordStockId = query THEN 1
        ELSE IF StartsWith(recordStockId, query) THEN 2
        ELSE IF Includes(recordStockId, query) THEN 3
        ELSE IF Includes(contractor, query) THEN 4
        ELSE IF calculateSimpleDistance(recordStockId, query) <= 2 /\ Len(query) > 2 THEN 5
        ELSE 0

\* String.prototype.localeCompare in the root collation: the primary weight
\* of a code unit (space, punctuation, digits, then letters without case)
PrimaryWeight(c) ==
    IF c = 32 THEN 1
    ELSE IF c \in 48..57 THEN 100 + (c - 48)
    ELSE IF c \in 65..90 THEN 200 + (c - 65)
    ELSE IF c \in 97..122 THEN 200 + (c - 97)
    ELSE 2 + c

RECURSIVE ComparePrimary(_, _)
ComparePrimary(a, b) ==
    IF a = <<>> /\ b = <<>> THEN 0
    ELSE IF a = <<>> THEN -1
    ELSE IF b = <<>> THEN 1
    ELSE IF PrimaryWeight(Head(a)) # PrimaryWeight(Head(b))
         THEN (IF PrimaryWeight(Head(a)) < PrimaryWeight(Head(b)) THEN -1 ELSE 1)
    ELSE ComparePrimary(Tail(a), Tail(b))

\* strings with equal primary weights: at the first difference of case the
\* lower-case letter sorts first
RECURSIVE CompareCase(_, _)
CompareCase(a, b) ==
    IF a = <<>> \/ b = <<>> THEN 0
    ELSE IF Head(a) # Head(b) THEN (IF Head(a) > Head(b) THEN -1 ELSE 1)
    ELSE CompareCase(Tail(a), Tail(b))

localeCompare(a, b) ==
    IF ComparePrimary(a, b) # 0 THEN ComparePrimary(a, b) ELSE CompareCase(a, b)

\* the tie on length left undecided: equal-length identifiers keep their input order
Comparator_NoTieBreak(a, b) ==
    IF a.priority # b.priority THEN a.priority - b.priority
    ELSE Len(a.record.STOCK_ID) - Len(b.record.STOCK_ID)

\* the sort's comparator: negative when a sorts before b
Comparator(a, b) ==
    IF a.priority # b.priority THEN a.priority - b.priority
    ELSE IF Len(a.record.STOCK_ID) # Len(b.record.STOCK_ID)
         THEN Len(a.record.STOCK_ID) - Len(b.record.STOCK_ID)
    ELSE localeCompare(a.record.STOCK_ID, b.record.STOCK_ID)

\* Array.prototype.sort is stable: an item goes after every item it does not sort before
RECURSIVE InsertSorted(_, _)
InsertSorted(sorted, item) ==
    IF sorted = <<>> THEN <<item>>
    ELSE IF Comparator(item, Head(sorted)) < 0 THEN <<item>> \o sorted
    ELSE <<Head(sorted)>> \o InsertSorted(Tail(sorted), item)

RECURSIVE SortResults(_)
SortResults(results) ==
    IF results = <<>> THEN <<>>
    ELSE InsertSorted(SortResults(SubSeq(results, 1, Len(results) - 1)), results[Len(results)])

\* the results array the forEach fills: the records with a priority, in store order
RECURSIVE CollectResults(_, _)
CollectResults(allRecords, query) ==
    IF allRecords = <<>> THEN <<>>
    ELSE LET record == Head(allRecords)
             priority == Priority(record, query)
             rest == CollectResults(Tail(allRecords), query)
         IN  IF priority > 0 THEN <<[record |-> record, priority |-> priority]>> \o rest
             ELSE rest

\* the sorted results array of a non-blank search
RankedResults(stockId, allRecords) ==
    SortResults(CollectResults(allRecords, Trim(ToLowerCase(stockId))))

\* what searchRecords returns
SearchResult(stockId, allRecords) ==
    IF Trim(stockId) = <<>> THEN allRecords
    ELSE LET ranked == RankedResults(stockId, allRecords)
         IN  [i \in 1..Len(ranked) |-> ranked[i].record]

\* tosDatabase.searchRecords(stockId) on the store sRecords; a behaviour holds one search
searchRecords(stockId) ==
    /\ ~sDone
    /\ sQuery' = stockId
    /\ sRanked' = IF Trim(stockId) = <<>> THEN <<>> ELSE RankedResults(stockId, sRecords)
    /\ sResult' = SearchResult(stockId, sRecords)
    /\ sDone' = TRUE
    /\ sOp' = "tosDatabase"
    /\ UNCHANGED <<sRecords, sFilters, sTotal>>
    /\ UNCHANGED dbVars
    /\ UNCHANGED clientVars
    /\ UNCHANGED backendVars
    /\ UNCHANGED inFlightVars

\* the records a searched store is drawn from: STOCK_ID and CONTRACTOR are what
\* the search reads ("ab", "abb", "bAb", "bab", "b.a", "aabb" and their contractors)
RecordPool ==
    { [STOCK_ID |-> <<97, 98>>, CONTRACTOR |-> <<66, 98>>],
      [STOCK_ID |-> <<97, 98, 98>>, CONTRACTOR |-> <<97>>],
      [STOCK_ID |-> <<98, 65, 98>>, CONTRACTOR |-> <<97, 98>>],
      [STOCK_ID |-> <<98, 97, 98>>, CONTRACTOR |-> <<65, 97>>],
      [STOCK_ID |-> <<98, 46, 97>>, CONTRACTOR |-> <<97, 32, 98>>],
      [STOCK_ID |-> <<97, 97, 98, 98>>, CONTRACTOR |-> <<66>>] }

\* the stores searched: up to MaxStore different records of the pool, in any order
RECURSIVE StoresOfLen(_)
StoresOfLen(n) ==
    IF n = 0 THEN {<<>>}
    ELSE {Append(st, r) : st \in StoresOfLen(n - 1), r \in RecordPool}

Stores ==
    {st \in UNION {StoresOfLen(n) : n \in 0..MaxStore} :
        \A i, j \in DOMAIN st : i # j => st[i] # st[j]}

\* getAll() returns the records in key order: the record at position i has ID i
WithIds(st) ==
    [i \in DOMAIN st |-> [ID |-> i, STOCK_ID |-> st[i].STOCK_ID, CONTRACTOR |-> st[i].CONTRACTOR,
                          STOCK_STATUS |-> IF i % 2 = 1 THEN "Active" ELSE "Full"]]

\* the queries typed: the strings over a, b, A and the space up to MaxQueryLen
QueryChars == {97, 98, 65, 32}

RECURSIVE QueriesOfLen(_)
QueriesOfLen(n) ==
    IF n = 0 THEN {<<>>}
    ELSE {Append(q, c) : q \in QueriesOfLen(n - 1), c \in QueryChars}

Queries == UNION {QueriesOfLen(n) : n \in 0..MaxQueryLen}

SearchInit ==
    /\ records = SampleData
    /\ pending = << >>
    /\ now = StartTime
    /\ last = NoCall
    /\ generated = << >>
    /\ online = TRUE
    /\ remote = SampleData
    /\ remoteLog = {}
    /\ confirmed = {}
    /\ sRecords \in {WithIds(st) : st \in Stores}
    /\ sQuery = << >>
    /\ sRanked = << >>
    /\ sResult = << >>
    /\ sDone = FALSE
    /\ sOp = "none"
    /\ sFilters = NoFilters
    /\ sTotal = 0
    /\ BackendIdle /\ InFlightIdle

SearchNext == \E q \in Queries : searchRecords(q)

\* searches of any store of the pool with any query
SearchSpec == SearchInit /\ [][SearchNext]_vars

\* the tiers of the specification, each stated on its own
TierApplies(t, record, q) ==
    LET stock == ToLowerCase(record.STOCK_ID)
    IN  CASE t = 1 -> stock = q
          [] t = 2 -> StartsWith(stock, q)
          [] t = 3 -> Includes(stock, q)
          [] t = 4 -> Includes(ToLowerCase(record.CONTRACTOR), q)
          [] t = 5 -> calculateSimpleDistance(stock, q) <= 2 /\ Len(q) > 2

TiersOf(record, q) == {t \in 1..5 : TierApplies(t, record, q)}

LowestOf(S) == CHOOSE t \in S : \A u \in S : t <= u

\* the number of times a record occurs in a list
Occurrences(list, record) == Cardinality({j \in DOMAIN list : list[j] = record})

\* C10: for a non-blank query, a record is returned if and only if some tier
\* applies to it, exactly once, and with the lowest-numbered tier that applies.
C10_LowestTierOnce ==
    (sDone /\ Trim(sQuery) # <<>>) =>
        LET q == ToLowerCase(Trim(sQuery))
        IN  /\ \A i \in DOMAIN sRecords :
                   LET r == sRecords[i]
                       tiers == TiersOf(r, q)
                   IN  /\ tiers = {} => Occurrences(sResult, r) = 0
                       /\ tiers # {} =>
                             /\ Occurrences(sResult, r) = 1
                             /\ \E j \in DOMAIN sRanked :
                                   /\ sRanked[j].record = r
                                   /\ sRanked[j].priority = LowestOf(tiers)
            /\ Len(sRanked) = Len(sResult)
            /\ \A j \in DOMAIN sResult :
                   /\ sResult[j] = sRanked[j].record
                   /\ \E i \in DOMAIN sRecords : sRecords[i] = sResult[j]

\* C10 witness: a search that left a record out, returned a prefix match (to
\* which the substring tier applies too) and returned a fuzzy match
C10_TiersExercised ==
    /\ sDone /\ Trim(sQuery) # <<>>
    /\ LET q == ToLowerCase(Trim(sQuery))
       IN  /\ \E i \in DOMAIN sRecords : TiersOf(sRecords[i], q) = {}
           /\ \E j \in DOMAIN sRanked :
                 sRanked[j].priority = 2 /\ 3 \in TiersOf(sRanked[j].record, q)
           /\ \E j \in DOMAIN sRanked : sRanked[j].priority = 5

\* the records of a store with those at positions k and k + 1 exchanged; every
\* order of the records is reached by such exchanges
Exchanged(allRecords, k) ==
    [i \in DOMAIN allRecords |->
        IF i = k THEN allRecords[k + 1] ELSE IF i = k + 1 THEN allRecords[k] ELSE allRecords[i]]

\* a ranked item sorts no later than another: by priority, then by the length
\* of STOCK_ID, then by the third key given as a three-way comparison
KeysAscending(a, b, third) ==
    \/ a.priority < b.priority
    \/ /\ a.priority = b.priority
       /\ Len(a.record.STOCK_ID) < Len(b.record.STOCK_ID)
    \/ /\ a.priority = b.priority
       /\ Len(a.record.STOCK_ID) = Len(b.record.STOCK_ID)
       /\ third <= 0

\* plain lexicographic order of two strings, code unit by code unit
CompareCodeUnits(a, b) == IF a = b THEN 0 ELSE IF StrLess(a, b) THEN -1 ELSE 1

\* C11 as claimed: the list returned for a non-blank query is ascending by
\* (tier, STOCK_ID length, STOCK_ID in lexicographic order of its characters).
C11_SortedLexicographic ==
    (sDone /\ Trim(sQuery) # <<>>) =>
        \A i, j \in DOMAIN sRanked : i < j =>
            KeysAscending(sRanked[i], sRanked[j],
                          CompareCodeUnits(sRanked[i].record.STOCK_ID, sRanked[j].record.STOCK_ID))

\* C11 as amended: the list returned for a non-blank query is ascending by
\* (tier, STOCK_ID length, STOCK_ID in the collation order of localeCompare),
\* and with distinct stock identifiers it is the same list when two neighbouring
\* stored records change places, hence for every order of the stored records.
C11_SortedByCollation ==
    (sDone /\ Trim(sQuery) # <<>>) =>
        /\ \A i, j \in DOMAIN sRanked : i < j =>
               KeysAscending(sRanked[i], sRanked[j],
                             localeCompare(sRanked[i].record.STOCK_ID, sRanked[j].record.STOCK_ID))
        /\ \A k \in 1..(Len(sRecords) - 1) :
               SearchResult(sQuery, Exchanged(sRecords, k)) = sResult

\* C11 witness: two records of the same tier and length, differing in the case
\* of a letter, returned in the reverse of their stored order
C11_TieBrokenByCollation ==
    /\ sDone /\ Trim(sQuery) # <<>>
    /\ \E i, j \in DOMAIN sRanked :
          /\ i < j
          /\ sRanked[i].priority = sRanked[j].priority
          /\ Len(sRanked[i].record.STOCK_ID) = Len(sRanked[j].record.STOCK_ID)
          /\ ToLowerCase(sRanked[i].record.STOCK_ID) = ToLowerCase(sRanked[j].record.STOCK_ID)
          /\ sRanked[i].record.ID > sRanked[j].record.ID

(***************************************************************************)
(* The backend's in-memory search (MockTOSModel.searchRecords) and the     *)
(* suggestion list of EnhancedSearch, run on the same records as the       *)
(* local search.                                                           *)
(***************************************************************************)
\* the number of records the three searches are compared on
MaxCompared == 2

\* filters.limit || 50
DefaultLimit == 50

\* .slice(0, 8) of the suggestion list
SuggestionCap == 8

\* Array.prototype.slice(from, to) with 0 <= from <= to, indices counted from 0
Slice(list, from, to) ==
    IF from >= Len(list) THEN <<>> ELSE SubSeq(list, from + 1, Min(to, Len(list)))

\* the STOCK_ID matched at its start only
MockMatches_PrefixOnly(record, searchTerm) ==
    \/ StartsWith(ToLowerCase(record.STOCK_ID), searchTerm)
    \/ Includes(ToLowerCase(record.CONTRACTOR), searchTerm)

\* the filter callback of the mock search
MockMatches(record, searchTerm) ==
    \/ Includes(ToLowerCase(record.STOCK_ID), searchTerm)
    \/ Includes(ToLowerCase(record.CONTRACTOR), searchTerm)

\* the exact match sent to the back
MockComparator_ExactLast(a, b, searchTerm) ==
    LET aStockId == ToLowerCase(a.STOCK_ID)
        bStockId == ToLowerCase(b.STOCK_ID)
    IN  IF aStockId = searchTerm /\ bStockId # searchTerm THEN 1
        ELSE IF bStockId = searchTerm /\ aStockId # searchTerm THEN -1
        ELSE IF StartsWith(aStockId, searchTerm) /\ ~StartsWith(bStockId, searchTerm) THEN -1
        ELSE IF StartsWith(bStockId, searchTerm) /\ ~StartsWith(aStockId, searchTerm) THEN 1
        ELSE Len(aStockId) - Len(bStockId)

\* the sort callback of the mock search
MockComparator(a, b, searchTerm) ==
    LET aStockId == ToLowerCase(a.STOCK_ID)
        bStockId == ToLowerCase(b.STOCK_ID)
    IN  IF aStockId = searchTerm /\ bStockId # searchTerm THEN -1
        ELSE IF bStockId = searchTerm /\ aStockId # searchTerm THEN 1
        ELSE IF StartsWith(aStockId, searchTerm) /\ ~StartsWith(bStockId, searchTerm) THEN -1
        ELSE IF StartsWith(bStockId, searchTerm) /\ ~StartsWith(aStockId, searchTerm) THEN 1
        ELSE Len(aStockId) - Len(bStockId)

\* results.sort(...) of the mock search (stable)
RECURSIVE MockInsertSorted(_, _, _)
MockInsertSorted(sorted, item, searchTerm) ==
    IF sorted = <<>> THEN <<item>>
    ELSE IF MockComparator(item, Head(sorted), searchTerm) < 0 THEN <<item>> \o sorted
    ELSE <<Head(sorted)>> \o MockInsertSorted(Tail(sorted), item, searchTerm)

RECURSIVE MockSort(_, _)
MockSort(results, searchTerm) ==
    IF results = <<>> THEN <<>>
    ELSE MockInsertSorted(MockSort(SubSeq(results, 1, Len(results) - 1), searchTerm),
                          results[Len(results)], searchTerm)

\* the query applied without the test for a blank one
MockQueried_Unguarded(data, query) ==
    LET searchTerm == ToLowerCase(query)
    IN  MockSort(SelectSeq(data, LAMBDA record : MockMatches(record, searchTerm)), searchTerm)

\* the mock search up to the filters: the query applied to this.data
MockQueried(data, query) ==
    IF Trim(query) = <<>> THEN data
    ELSE LET searchTerm == ToLowerCase(query)
         IN  MockSort(SelectSeq(data, LAMBDA record : MockMatches(record, searchTerm)), searchTerm)

\* the contractor and status filters
MockFiltered(results, filters) ==
    LET byContractor == IF filters.contractor = <<>> THEN results
                        ELSE SelectSeq(results, LAMBDA record : record.CONTRACTOR = filters.contractor)
    IN  IF filters.status = "" THEN byContractor
        ELSE SelectSeq(byContractor, LAMBDA record : record.STOCK_STATUS = filters.status)

\* a row of a search recordset: the record and the count of all matches
WithCount(record, total) ==
    [ID |-> record.ID, STOCK_ID |-> record.STOCK_ID, CONTRACTOR |-> record.CONTRACTOR,
     STOCK_STATUS |-> record.STOCK_STATUS, total_count |-> total]

\* what MockTOSModel.searchRecords returns
MockSearchResult(data, query, filters) ==
    LET results == MockFiltered(MockQueried(data, query), filters)
        limit == IF filters.limit = 0 THEN DefaultLimit ELSE filters.limit
        offset == filters.offset
        total == Len(results)
        paginatedResults == Slice(results, offset, offset + limit)
    IN  [records |-> [i \in 1..Len(paginatedResults) |->
                         [ID |-> paginatedResults[i].ID,
                          STOCK_ID |-> paginatedResults[i].STOCK_ID,
                          CONTRACTOR |-> paginatedResults[i].CONTRACTOR,
                          STOCK_STATUS |-> paginatedResults[i].STOCK_STATUS,
                          total_count |-> total]],
         total |-> total]

\* mockTosModel.searchRecords(query, filters) with this.data = sRecords
mockSearchRecords(query, filters) ==
    /\ ~sDone
    /\ sQuery' = query
    /\ sFilters' = filters
    /\ sResult' = MockSearchResult(sRecords, query, filters).records
    /\ sTotal' = MockSearchResult(sRecords, query, filters).total
    /\ sDone' = TRUE
    /\ sOp' = "mockTosModel"
    /\ UNCHANGED <<sRecords, sRanked>>
    /\ UNCHANGED dbVars
    /\ UNCHANGED clientVars
    /\ UNCHANGED backendVars
    /\ UNCHANGED inFlightVars

\* EnhancedSearch.calculateSimpleDistance: the positions at which the two
\* strings differ, up to the length of the longer
RECURSIVE CountDifferences(_, _, _, _)
CountDifferences(str1, str2, i, maxLength) ==
    IF i >= maxLength THEN 0
    ELSE (IF CharAt(str1, i) # CharAt(str2, i) THEN 1 ELSE 0)
         + CountDifferences(str1, str2, i + 1, maxLength)

EnhancedDistance(str1, str2) ==
    LET longer == IF Len(str1) < Len(str2) THEN str2 ELSE str1
        shorter == IF Len(str1) < Len(str2) THEN str1 ELSE str2
    IN  CountDifferences(longer, shorter, 0, Max(Len(longer), Len(shorter)))

\* the priority EnhancedSearch gives a record; 0 when no level matches
EnhancedPriority(record, query) ==
    LET stockId == ToLowerCase(record.STOCK_ID)
        contractor == ToLowerCase(record.CONTRACTOR)
    IN  IF stockId = query THEN 1
        ELSE IF StartsWith(stockId, query) THEN 2
        ELSE IF Includes(stockId, query) THEN 3
        ELSE IF Includes(contractor, query) THEN 4
        ELSE IF EnhancedDistance(stockId, query) <= 2 THEN 5
        ELSE 0

RECURSIVE EnhancedCollect(_, _)
EnhancedCollect(recs, query) ==
    IF recs = <<>> THEN <<>>
    ELSE LET record == Head(recs)
             priority == EnhancedPriority(record, query)
             rest == EnhancedCollect(Tail(recs), query)
         IN  IF priority > 0 THEN <<[record |-> record, priority |-> priority]>> \o rest
             ELSE rest

\* the sorted, capped list of {record, priority} of EnhancedSearch
EnhancedRanked(value, recs) ==
    Slice(SortResults(EnhancedCollect(recs, Trim(ToLowerCase(value)))), 0, SuggestionCap)

\* the searchResults of EnhancedSearch for the typed value
EnhancedSearchResults(value, recs) ==
    IF Trim(value) = <<>> THEN <<>>
    ELSE LET ranked == EnhancedRanked(value, recs)
         IN  [i \in 1..Len(ranked) |-> ranked[i].record]

\* EnhancedSearch recomputes searchResults for the value typed, over the records sRecords
searchResults(value) ==
    /\ ~sDone
    /\ sQuery' = value
    /\ sRanked' = IF Trim(value) = <<>> THEN <<>> ELSE EnhancedRanked(value, sRecords)
    /\ sResult' = EnhancedSearchResults(value, sRecords)
    /\ sDone' = TRUE
    /\ sOp' = "EnhancedSearch"
    /\ UNCHANGED <<sRecords, sFilters, sTotal>>
    /\ UNCHANGED dbVars
    /\ UNCHANGED clientVars
    /\ UNCHANGED backendVars
    /\ UNCHANGED inFlightVars

\* the filters handed to the mock search: none, a contractor with a status, a page
MockFilterInputs ==
    { NoFilters,
      [contractor |-> <<97>>, status |-> "Full", limit |-> 0, offset |-> 0],
      [contractor |-> <<>>, status |-> "", limit |-> 1, offset |-> 1] }

\* TOSModel.searchRecords on a connected SQL Server, with the table's columns in
\* a case-insensitive collation (the default of a SQL Server installation): =
\* and LIKE ignore case, = also ignores trailing spaces, LIKE does not. The
\* query is bound as typed, without trimming.
SqlEquals(column, value) == TrimEnd(ToLowerCase(column)) = TrimEnd(ToLowerCase(value))

\* column LIKE '%query%', LIKE 'query%' and LIKE '%query'
SqlLikeAnywhere(column, query) == Includes(ToLowerCase(column), ToLowerCase(query))
SqlLikePrefix(column, query) == StartsWith(ToLowerCase(column), ToLowerCase(query))
SqlLikeSuffix(column, query) ==
    /\ Len(query) <= Len(column)
    /\ SubSeq(ToLowerCase(column), Len(column) - Len(query) + 1, Len(column)) = ToLowerCase(query)

\* the search condition of the WHERE clause
SqlWhere(record, query) ==
    \/ SqlLikeAnywhere(record.STOCK_ID, query)
    \/ SqlLikePrefix(record.STOCK_ID, query)
    \/ SqlLikeSuffix(record.STOCK_ID, query)
    \/ SqlLikeAnywhere(record.CONTRACTOR, query)

\* the CASE expression of the ORDER BY clause
SqlCase(record, query) ==
    IF SqlEquals(record.STOCK_ID, query) THEN 1
    ELSE IF SqlLikePrefix(record.STOCK_ID, query) THEN 2
    ELSE IF SqlLikeAnywhere(record.STOCK_ID, query) THEN 3
    ELSE IF SqlLikeAnywhere(record.CONTRACTOR, query) THEN 4
    ELSE 5

\* ORDER BY CASE ..., LEN(STOCK_ID), STOCK_ID: negative when a sorts before b,
\* 0 when the three keys are equal in the collation
SqlOrderBy(a, b, query) ==
    IF SqlCase(a, query) # SqlCase(b, query) THEN SqlCase(a, query) - SqlCase(b, query)
    ELSE IF Len(TrimEnd(a.STOCK_ID)) # Len(TrimEnd(b.STOCK_ID))
         THEN Len(TrimEnd(a.STOCK_ID)) - Len(TrimEnd(b.STOCK_ID))
    ELSE ComparePrimary(a.STOCK_ID, b.STOCK_ID)

\* AND CONTRACTOR = @contractor, AND STOCK_STATUS = @status
SqlFiltered(rows, filters) ==
    LET byContractor == IF filters.contractor = <<>> THEN rows
                        ELSE SelectSeq(rows, LAMBDA record : SqlEquals(record.CONTRACTOR, filters.contractor))
    IN  IF filters.status = "" THEN byContractor
        ELSE SelectSeq(byContractor, LAMBDA record : record.STOCK_STATUS = filters.status)

\* the rows the WHERE clause keeps, in table order
SqlSelected(table, query, filters) ==
    LET searched == IF Trim(query) = <<>> THEN table
                    ELSE SelectSeq(table, LAMBDA record : SqlWhere(record, query))
    IN  SqlFiltered(searched, filters)

\* the orders in which the server may return the selected rows: any order
\* the ORDER BY keys allow, rows with equal keys in either order
\* (a blank query keeps ORDER BY DATE DESC, ID DESC; the rows here share one date)
SqlOrders(rows, query) ==
    { [i \in 1..Len(rows) |-> rows[p[i]]] : p \in
        { f \in Permutations(1..Len(rows)) :
            \A i, j \in 1..Len(rows) :
                i < j => IF Trim(query) = <<>> THEN rows[f[i]].ID > rows[f[j]].ID
                         ELSE SqlOrderBy(rows[f[i]], rows[f[j]], query) <= 0 } }

\* the recordsets TOSModel.searchRecords may return for the query and filters
SqlSearchResults(table, query, filters) ==
    LET rows == SqlSelected(table, query, filters)
        limit == IF filters.limit = 0 THEN DefaultLimit ELSE filters.limit
    IN  { [i \in 1..Len(Slice(ordered, filters.offset, filters.offset + limit)) |->
              WithCount(Slice(ordered, filters.offset, filters.offset + limit)[i], Len(rows))] :
          ordered \in SqlOrders(rows, query) }

\* tosModel.searchRecords(query, filters) answered by the SQL Server holding sRecords
sqlSearchRecords(query, filters) ==
    /\ ~sDone
    /\ sQuery' = query
    /\ sFilters' = filters
    /\ sResult' \in SqlSearchResults(sRecords, query, filters)
    /\ sTotal' = IF sResult' = <<>> THEN 0 ELSE sResult'[1].total_count
    /\ sDone' = TRUE
    /\ sOp' = "tosModel"
    /\ UNCHANGED <<sRecords, sRanked>>
    /\ UNCHANGED dbVars
    /\ UNCHANGED clientVars
    /\ UNCHANGED backendVars
    /\ UNCHANGED inFlightVars

\* the record sets the three searches are compared on
ComparedStores == {st \in Stores : Len(st) <= MaxCompared}

RankingInit ==
    /\ records = SampleData
    /\ pending = << >>
    /\ now = StartTime
    /\ last = NoCall
    /\ generated = << >>
    /\ online = TRUE
    /\ remote = SampleData
    /\ remoteLog = {}
    /\ confirmed = {}
    /\ sRecords \in {WithIds(st) : st \in ComparedStores}
    /\ sQuery = << >>
    /\ sRanked = << >>
    /\ sResult = << >>
    /\ sDone = FALSE
    /\ sOp = "none"
    /\ sFilters = NoFilters
    /\ sTotal = 0
    /\ BackendIdle /\ InFlightIdle

RankingNext ==
    \/ \E q \in Queries : searchRecords(q)
    \/ \E q \in Queries, f \in MockFilterInputs : mockSearchRecords(q, f)
    \/ \E q \in Queries : searchResults(q)
    \/ \E q \in Queries, f \in MockFilterInputs : sqlSearchRecords(q, f)

\* the local search, the backend's in-memory search and the suggestion list,
\* each on any record set with any query
RankingSpec == RankingInit /\ [][RankingNext]_vars

\* the tier the specification gives a record for the search term q, among
\* tiers 1 to 4; 0 when none of them applies
TierUpTo4(record, q) ==
    LET tiers == TiersOf(record, q) \ {5} IN IF tiers = {} THEN 0 ELSE LowestOf(tiers)

\* C12: for a non-blank query, each record the backend's in-memory search
\* returns has a tier (1 exact, 2 prefix, 3 substring of STOCK_ID, 4
\* contractor) no greater than that of every record after it.
C12_MockTiersAscending ==
    (sOp = "mockTosModel" /\ Trim(sQuery) # <<>>) =>
        \A i, j \in DOMAIN sResult : i < j =>
            TierUpTo4(sResult[i], ToLowerCase(sQuery)) <= TierUpTo4(sResult[j], ToLowerCase(sQuery))

\* the record is in the list returned (the backend's copies carry total_count too)
Returned(record) ==
    \E j \in DOMAIN sResult :
        /\ sResult[j].ID = record.ID
        /\ sResult[j].STOCK_ID = record.STOCK_ID
        /\ sResult[j].CONTRACTOR = record.CONTRACTOR

\* C13: for a non-blank query q, every record whose STOCK_ID contains q, case
\* apart, is in the result of the local search and of the backend's in-memory
\* search (no filters), prefix or not.
C13_SubstringMatchesReturned ==
    (sOp \in {"tosDatabase", "mockTosModel"} /\ Trim(sQuery) # <<>> /\ sFilters = NoFilters) =>
        \A i \in DOMAIN sRecords :
            Includes(ToLowerCase(sRecords[i].STOCK_ID), ToLowerCase(sQuery)) => Returned(sRecords[i])

\* C13 witness: the backend's in-memory search returned a record that contains
\* the query, typed in upper case, elsewhere than at its start
C13_InnerMatchReturned ==
    /\ sOp = "mockTosModel" /\ sFilters = NoFilters
    /\ sQuery # <<>> /\ sQuery # ToLowerCase(sQuery)
    /\ \E i \in DOMAIN sRecords :
          /\ Includes(ToLowerCase(sRecords[i].STOCK_ID), ToLowerCase(sQuery))
          /\ ~StartsWith(ToLowerCase(sRecords[i].STOCK_ID), ToLowerCase(sQuery))
          /\ Returned(sRecords[i])

\* the record's lower-cased STOCK_ID equals the query
ExactMatch(record) == ToLowerCase(record.STOCK_ID) = ToLowerCase(sQuery)

\* C14: in the local search, the suggestion list and the backend's in-memory
\* search, a record whose lower-cased STOCK_ID equals the query comes before
\* every returned record that is not such a match, whatever the stored order.
C14_ExactMatchFirst ==
    sDone =>
        \A i, j \in DOMAIN sResult :
            (ExactMatch(sResult[j]) /\ ~ExactMatch(sResult[i])) => j < i

\* C14 witness: the backend's in-memory search put an exact match first that
\* is stored after another returned record
C14_ExactMatchMovedUp ==
    /\ sOp = "mockTosModel"
    /\ Len(sResult) = 2
    /\ ExactMatch(sResult[1]) /\ ~ExactMatch(sResult[2])
    /\ sResult[1].ID > sResult[2].ID

\* C15: a query that is empty or only white space makes the local search
\* return every stored record in stored order, and the backend's in-memory
\* search (no filters) return the records in stored order.
C15_BlankQueryKeepsOrder ==
    (sOp \in {"tosDatabase", "mockTosModel"} /\ Trim(sQuery) = <<>> /\ sFilters = NoFilters) =>
        /\ Len(sResult) = Len(sRecords)
        /\ \A i \in DOMAIN sRecords :
               /\ sResult[i].ID = sRecords[i].ID
               /\ sResult[i].STOCK_ID = sRecords[i].STOCK_ID
               /\ sResult[i].CONTRACTOR = sRecords[i].CONTRACTOR
        /\ sOp = "tosDatabase" => sResult = sRecords

\* C15 witness: a query of white space only, on two stored records whose
\* stored order is not their order of STOCK_ID length
C15_BlankQuerySearched ==
    /\ sOp = "mockTosModel" /\ sFilters = NoFilters
    /\ sQuery # <<>> /\ Trim(sQuery) = <<>>
    /\ Len(sResult) = 2
    /\ Len(sResult[1].STOCK_ID) > Len(sResult[2].STOCK_ID)

(***************************************************************************)
(* The offline mutation log: properties of TOSDatabase under Spec.         *)
(***************************************************************************)
\* the step is an updateRecord call (stated on what the call returns, not on its effect)
UpdateSettles == last'.op = "updateRecord" /\ (last' # last \/ generated' # generated)

\* the latest call was updateRecord and its promise resolved
UpdateResolved == last.op = "updateRecord" /\ last.result = "resolved"

\* the position in the history at which the stored entry with this id was added
CreatedAt(key) ==
    CHOOSE i \in DOMAIN generated :
        /\ generated[i].id = key /\ generated[i].added
        /\ \A j \in DOMAIN generated : (generated[j].id = key /\ generated[j].added) => j <= i

\* C3: updateRecord with a field other than SHIFT or STOCK_STATUS does not
\* resolve, and every stored Pending Update has field SHIFT or STOCK_STATUS.
C3_InvalidFieldRejected ==
    /\ UpdateResolved => last.field \in MutableFields
    /\ \A k \in DOMAIN pending : pending[k].field \in MutableFields

\* C4: the Pending Updates built by distinct updateRecord calls have distinct
\* generated ids, however close together in time the calls are.
C4_GeneratedIdsDistinct ==
    \A i, j \in DOMAIN generated :
        (i # j /\ generated[i].field \in MutableFields /\ generated[j].field \in MutableFields)
            => generated[i].id # generated[j].id

\* C5: each successful updateRecord call makes getPendingUpdates one entry
\* longer, so N successful calls with no clearPendingUpdate in between add
\* exactly N entries.
C5_SuccessAddsOneEntry ==
    [][(UpdateSettles /\ last'.result = "resolved")
         => Len(getPendingUpdates') = Len(getPendingUpdates) + 1]_vars

\* C5 witness: two successful calls in a row have left two entries
C5_TwoQueued ==
    /\ UpdateResolved
    /\ Len(generated) = 2 /\ generated[1].added /\ generated[2].added
    /\ Len(getPendingUpdates) = 2

\* C6 as claimed: getPendingUpdates lists the entries in insertion order
\* (stated for the edits of SHIFT and STOCK_STATUS).
C6_InsertionOrder ==
    LET p == getPendingUpdates
    IN  \A i, j \in DOMAIN p :
            (i < j /\ p[i].field \in MutableFields /\ p[j].field \in MutableFields)
                => CreatedAt(p[i].id) < CreatedAt(p[j].id)

\* C6 as amended: getPendingUpdates lists the entries in ascending key order of
\* their ids; entries of the same record and field are in creation order.
C6_KeyOrder ==
    LET p == getPendingUpdates
    IN  \A i, j \in DOMAIN p : i < j =>
            /\ StrLess(p[i].id, p[j].id)
            /\ (p[i].recordId = p[j].recordId /\ p[i].field = p[j].field)
                   => CreatedAt(p[i].id) < CreatedAt(p[j].id)

\* C6 witness: two queued edits of the same record and field
C6_TwoEditsOfOneField ==
    LET p == getPendingUpdates
    IN  /\ Len(p) = 2
        /\ p[1].recordId = p[2].recordId /\ p[1].field = p[2].field

\* C7: right after a successful updateRecord(id, field, v), reading the
\* records shows field = v for that record.
C7_EditVisibleAtOnce ==
    UpdateResolved =>
        \E i \in DOMAIN getAllRecords :
            /\ getAllRecords[i].ID = last.id
            /\ getAllRecords[i][last.field] = last.value

\* C7 witness: an edit resolved that changed the value the record started with
C7_ChangedValueRead ==
    /\ UpdateResolved
    /\ SampleData[last.id][last.field] # last.value

\* C8: updateRecord with a record id that is not stored rejects with
\* 'Record not found' and leaves both object stores unchanged.
C8_NotFoundChangesNothing ==
    [][(UpdateSettles /\ last'.id \notin DOMAIN records)
         => /\ last'.result = "RecordNotFound"
            /\ records' = records
            /\ pending' = pending]_vars

\* C8 witness: the call was rejected while edits were queued
C8_NotFoundSeen ==
    /\ last.op = "updateRecord" /\ last.result = "RecordNotFound"
    /\ last.id \notin DOMAIN records
    /\ DOMAIN pending # {}

\* C9: clearPendingUpdate(id) resolves, removes the entry with that id if there
\* is one, and leaves every other entry and every record unchanged; with the
\* id absent it changes nothing.
C9_ClearIsIdempotent ==
    [][last'.op = "clearPendingUpdate"
         => /\ last'.result = "resolved"
            /\ records' = records
            /\ DOMAIN pending' = DOMAIN pending \ {last'.key}
            /\ \A k \in DOMAIN pending' : pending'[k] = pending[k]
            /\ (last'.key \notin DOMAIN pending => pending' = pending)]_vars

\* C9 witness: an id that had been queued is cleared while another entry stays
C9_ClearedOneOfTwo ==
    /\ last.op = "clearPendingUpdate"
    /\ \E i \in DOMAIN generated : generated[i].id = last.key /\ generated[i].added
    /\ last.key \notin DOMAIN pending
    /\ DOMAIN pending # {}

(***************************************************************************)
(* The backend: DatabaseConnection, TOSModel over the SQL table (the       *)
(* variable remote), MockTOSModel over its array, and the routes.          *)
(***************************************************************************)
\* the number of updates in a batch handed to bulkUpdate
MaxBatch == 2
\* the number of times the SQL Server goes away after the start
MaxOutages == 1

\* DatabaseConnection.maxRetries
maxRetries == 3

\* bulkUpdateSchema: updates has at most 100 items
MaxUpdates == 100

\* allowedFields of updateRecord and bulkUpdate; .valid('SHIFT', 'STOCK_STATUS') of the schemas
allowedFields == {"SHIFT", "STOCK_STATUS"}

\* the fields of DatabaseConnection
Conn == [isConnected |-> isConnected, pool |-> pool, retryCount |-> retryCount, timers |-> timers]

\* a connect() that counts every failure, with no limit
Connect_NoLimit(c, up) ==
    IF up
    THEN [conn |-> [c EXCEPT !.isConnected = TRUE, !.pool = "pool", !.retryCount = 0],
          thrown |-> FALSE]
    ELSE [conn |-> [c EXCEPT !.isConnected = FALSE, !.retryCount = c.retryCount + 1,
                             !.timers = c.timers + 1],
          thrown |-> FALSE]

\* connect(), settled: the fields it leaves and whether its promise rejected;
\* up says whether sql.connect succeeds
Connect(c, up) ==
    IF up
    THEN [conn |-> [c EXCEPT !.isConnected = TRUE, !.pool = "pool", !.retryCount = 0],
          thrown |-> FALSE]
    ELSE IF c.retryCount < maxRetries
    THEN [conn |-> [c EXCEPT !.isConnected = FALSE, !.retryCount = c.retryCount + 1,
                             !.timers = c.timers + 1],
          thrown |-> FALSE]
    ELSE [conn |-> [c EXCEPT !.isConnected = FALSE], thrown |-> TRUE]

\* getPool() returns the pool rather than throwing 'Database not connected'
PoolReturned(c) == c.isConnected /\ c.pool # "null"

\* ensureConnection(): the fields it leaves, whether it returned a pool, and
\* the error it threw otherwise
EnsureConnection(c, up) ==
    IF c.isConnected
    THEN [conn |-> c, ok |-> PoolReturned(c), error |-> "Database not connected"]
    ELSE LET k == Connect(c, up)
         IN  [conn |-> k.conn,
              ok |-> ~k.thrown /\ PoolReturned(k.conn),
              error |-> IF k.thrown THEN "ConnectionError" ELSE "Database not connected"]

\* what a backend call settled with: args its arguments, up whether the SQL
\* Server answered during the call, source the store the answer came from,
\* error the message thrown ("" for none), value what was returned
BackendResult(op, args, up, outcome, source, status, error, value) ==
    [op |-> op, args |-> args, up |-> up, outcome |-> outcome, source |-> source,
     status |-> status, error |-> error, value |-> value]

\* the order of DATE values, as the DATE column compares them
DateKey(date) ==
    CASE date = "2025-01-15" -> 2
      [] date = "2024-01-15" -> 1
      [] OTHER -> 0

\* ORDER BY DATE DESC, ID DESC
RECURSIVE SqlOrdered(_, _)
SqlOrdered(table, ids) ==
    IF ids = {} THEN <<>>
    ELSE LET first == CHOOSE i \in ids : \A j \in ids :
                          \/ DateKey(table[i].DATE) > DateKey(table[j].DATE)
                          \/ DateKey(table[i].DATE) = DateKey(table[j].DATE) /\ i >= j
         IN  <<table[first]>> \o SqlOrdered(table, ids \ {first})

\* a record as a result row: total_count added
WithTotal(record, total) ==
    [ID |-> record.ID, CONTRACTOR |-> record.CONTRACTOR, DATE |-> record.DATE,
     SHIFT |-> record.SHIFT, STOCK_ID |-> record.STOCK_ID,
     STOCK_STATUS |-> record.STOCK_STATUS, total_count |-> total]

\* the rows of one page and the total reported
Page(rows, limit, offset) ==
    LET paged == Slice(rows, offset, offset + limit)
    IN  [records |-> [i \in 1..Len(paged) |-> WithTotal(paged[i], Len(rows))],
         total |-> Len(rows)]

\* the SELECT of TOSModel.getAllRecords; total is 0 when the page is empty
SqlGetAllRecords(table, limit, offset) ==
    LET page == Page(SqlOrdered(table, DOMAIN table), limit, offset)
    IN  [records |-> page.records, total |-> IF Len(page.records) > 0 THEN page.total ELSE 0]

\* MockTOSModel.getAllRecords
MockGetAllRecords(data, limit, offset) == Page(data, limit, offset)

\* MockTOSModel.updateRecord: the array it leaves and the error it threw ("" for none)
MockUpdateRecord(data, id, field, value) ==
    LET found == {i \in DOMAIN data : data[i].ID = id}
    IN  IF found = {} THEN [data |-> data, error |-> "Record not found"]
        ELSE IF field \notin allowedFields THEN [data |-> data, error |-> "Invalid field"]
        ELSE LET recordIndex == CHOOSE i \in found : \A j \in found : i <= j
             IN  [data |-> [data EXCEPT ![recordIndex][field] = value], error |-> ""]

\* the loop of MockTOSModel.bulkUpdate over the updates left
RECURSIVE MockBulkLoop(_, _, _)
MockBulkLoop(updates, data, results) ==
    IF updates = <<>> THEN [data |-> data, results |-> results]
    ELSE LET update == Head(updates)
             done == MockUpdateRecord(data, update.id, update.field, update.value)
         IN  IF done.error = ""
             THEN MockBulkLoop(Tail(updates), done.data,
                               [results EXCEPT !.successful = results.successful + 1])
             ELSE MockBulkLoop(Tail(updates), data,
                               [results EXCEPT !.failed = results.failed + 1,
                                               !.errors = Append(results.errors,
                                                                 [id |-> update.id, error |-> done.error])])

\* results = { successful: 0, failed: 0, errors: [] }
NoResults == [successful |-> 0, failed |-> 0, errors |-> <<>>]

\* UPDATE ... SET field = @value WHERE ID = @id: no row is no error
SqlUpdate(table, id, field, value) ==
    IF id \in DOMAIN table THEN [table EXCEPT ![id][field] = value] ELSE table

\* the invalid field written all the same
RECURSIVE SqlBulkLoop_Unvalidated(_, _, _)
SqlBulkLoop_Unvalidated(updates, table, results) ==
    IF updates = <<>> THEN [table |-> table, results |-> results]
    ELSE LET update == Head(updates)
         IN  IF update.field \notin allowedFields
             THEN SqlBulkLoop_Unvalidated(Tail(updates),
                      SqlUpdate(table, update.id, update.field, update.value),
                      [results EXCEPT !.failed = results.failed + 1,
                                      !.errors = Append(results.errors,
                                                        [id |-> update.id, error |-> "Invalid field"])])
             ELSE SqlBulkLoop_Unvalidated(Tail(updates),
                      SqlUpdate(table, update.id, update.field, update.value),
                      [results EXCEPT !.successful = results.successful + 1])

\* the loop of TOSModel.bulkUpdate inside the transaction, over the updates left
RECURSIVE SqlBulkLoop(_, _, _)
SqlBulkLoop(updates, table, results) ==
    IF updates = <<>> THEN [table |-> table, results |-> results]
    ELSE LET update == Head(updates)
         IN  IF update.field \notin allowedFields
             THEN SqlBulkLoop(Tail(updates), table,
                      [results EXCEPT !.failed = results.failed + 1,
                                      !.errors = Append(results.errors,
                                                        [id |-> update.id, error |-> "Invalid field"])])
             ELSE SqlBulkLoop(Tail(updates),
                      SqlUpdate(table, update.id, update.field, update.value),
                      [results EXCEPT !.successful = results.successful + 1])

\* a TOSModel method, settled: the connection fields, the table and the result
\* it leaves. The methods below are given the state as c, up and table.
Settles(c, table, result) == [conn |-> c, table |-> table, result |-> result]

\* TOSModel.getAllRecords: the mock when not connected or when the query fails
TosGetAllRecords(c, up, table, data, limit, offset) ==
    IF c.isConnected /\ PoolReturned(c) /\ up
    THEN Settles(c, table, BackendResult("getAllRecords", <<limit, offset>>, up, "ok", "sql", 0, "",
                                         SqlGetAllRecords(table, limit, offset)))
    ELSE Settles(c, table, BackendResult("getAllRecords", <<limit, offset>>, up, "ok", "mock", 0, "",
                                         MockGetAllRecords(data, limit, offset)))

\* TOSModel.updateRecord
TosUpdateRecord(c, up, table, id, field, value) ==
    LET e == EnsureConnection(c, up)
        Throws(error) == Settles(e.conn, table, BackendResult("updateRecord", <<id, field, value>>, up, "error", "none", 0, error, <<>>))
    IN  IF ~e.ok THEN Throws(e.error)
        ELSE IF field \notin allowedFields THEN Throws("Invalid field")
        ELSE IF ~up THEN Throws("RequestError")
        ELSE IF id \notin DOMAIN table THEN Throws("Record not found")
        ELSE LET updated == SqlUpdate(table, id, field, value)
             IN  Settles(e.conn, updated,
                         BackendResult("updateRecord", <<id, field, value>>, up, "ok", "sql", 0, "", updated[id]))

\* TOSModel.bulkUpdate
TosBulkUpdate(c, up, table, updates) ==
    LET e == EnsureConnection(c, up)
        Throws(error) == Settles(e.conn, table, BackendResult("bulkUpdate", updates, up, "error", "none", 0, error, <<>>))
    IN  IF ~e.ok THEN Throws(e.error)
        ELSE IF ~up THEN Throws("RequestError")
        ELSE LET done == SqlBulkLoop(updates, table, NoResults)
             IN  Settles(e.conn, done.table,
                         BackendResult("bulkUpdate", updates, up, "ok", "sql", 0, "", done.results))

\* TOSModel.getContractors and getStatuses: SELECT DISTINCT column ORDER BY
\* column; the sorted list of distinct values is given as their set
TosGetDistinct(op, c, up, table, column) ==
    LET e == EnsureConnection(c, up)
        Throws(error) == Settles(e.conn, table, BackendResult(op, <<>>, up, "error", "none", 0, error, <<>>))
    IN  IF ~e.ok THEN Throws(e.error)
        ELSE IF ~up THEN Throws("RequestError")
        ELSE Settles(e.conn, table,
                     BackendResult(op, <<>>, up, "ok", "sql", 0, "",
                                   [rows |-> {table[i][column] : i \in DOMAIN table}]))

\* TOSModel.searchRecords with a blank query and no filters: neither WHERE
\* condition nor relevance order, the default page; the mock when not
\* connected or when the query fails
TosSearchRecords(c, up, table, data) ==
    IF c.isConnected /\ PoolReturned(c) /\ up
    THEN Settles(c, table, BackendResult("searchRecords", <<>>, up, "ok", "sql", 0, "",
                                         SqlGetAllRecords(table, DefaultLimit, 0)))
    ELSE Settles(c, table, BackendResult("searchRecords", <<>>, up, "ok", "mock", 0, "",
                                         MockSearchResult(data, <<>>, NoFilters)))

\* the state a settled TOSModel method leaves
Leaves(done) ==
    /\ isConnected' = done.conn.isConnected
    /\ pool' = done.conn.pool
    /\ retryCount' = done.conn.retryCount
    /\ timers' = done.conn.timers
    /\ remote' = done.table
    /\ bLast' = done.result
    /\ UNCHANGED <<mockData, reachable, outages>>
    /\ UNCHANGED <<online, remoteLog, confirmed>>
    /\ UNCHANGED dbVars
    /\ UNCHANGED searchVars
    /\ UNCHANGED inFlightVars

\* tosModel.getAllRecords(limit, offset)
tosGetAllRecords(limit, offset) ==
    Leaves(TosGetAllRecords(Conn, reachable, remote, mockData, limit, offset))

\* tosModel.searchRecords('', {})
tosSearchRecords ==
    Leaves(TosSearchRecords(Conn, reachable, remote, mockData))

\* tosModel.updateRecord(id, field, value)
tosUpdateRecord(id, field, value) ==
    Leaves(TosUpdateRecord(Conn, reachable, remote, id, field, value))

\* tosModel.bulkUpdate(updates)
tosBulkUpdate(updates) ==
    Leaves(TosBulkUpdate(Conn, reachable, remote, updates))

\* tosModel.getContractors()
tosGetContractors ==
    Leaves(TosGetDistinct("getContractors", Conn, reachable, remote, "CONTRACTOR"))

\* tosModel.getStatuses()
tosGetStatuses ==
    Leaves(TosGetDistinct("getStatuses", Conn, reachable, remote, "STOCK_STATUS"))

\* mockTosModel.bulkUpdate(updates)
mockBulkUpdate(updates) ==
    LET done == MockBulkLoop(updates, mockData, NoResults)
    IN  /\ mockData' = done.data
        /\ bLast' = BackendResult("mockBulkUpdate", updates, reachable, "ok", "mock", 0, "", done.results)
        /\ UNCHANGED <<isConnected, pool, retryCount, timers, reachable, outages>>
        /\ UNCHANGED clientVars
        /\ UNCHANGED dbVars
        /\ UNCHANGED searchVars
        /\ UNCHANGED inFlightVars

\* the result with the status the route answers with
Answered(done, op, okStatus) ==
    [done EXCEPT !.result.op = op,
                 !.result.status = IF done.result.outcome = "ok" THEN okStatus
                                   ELSE IF done.result.error = "Record not found" THEN 404
                                   ELSE 500]

\* the route answered 400 before calling the model
Refused(op, args) ==
    Settles(Conn, remote, BackendResult(op, args, reachable, "error", "none", 400, "ValidationError", <<>>))

\* updateSchema
ValidUpdate(field, value) == field \in allowedFields /\ value # ""

\* bulkUpdateSchema
ValidBulkUpdate(updates) ==
    /\ Len(updates) >= 1
    /\ Len(updates) <= MaxUpdates
    /\ \A i \in DOMAIN updates : ValidUpdate(updates[i].field, updates[i].value)

\* PUT /api/tos/:id
putTos(id, field, value) ==
    IF id = 0 \/ ~ValidUpdate(field, value)
    THEN Leaves(Refused("PUT /:id", <<id, field, value>>))
    ELSE Leaves(Answered(TosUpdateRecord(Conn, reachable, remote, id, field, value), "PUT /:id", 200))

\* POST /api/tos/bulk-update
postBulkUpdate(updates) ==
    IF ~ValidBulkUpdate(updates)
    THEN Leaves(Refused("POST /bulk-update", updates))
    ELSE Leaves(Answered(TosBulkUpdate(Conn, reachable, remote, updates), "POST /bulk-update", 200))

\* a connect() retry scheduled with setTimeout runs; a rejection there has no caller
retryTimer ==
    /\ timers > 0
    /\ LET k == Connect([Conn EXCEPT !.timers = timers - 1], reachable)
       IN  /\ isConnected' = k.conn.isConnected
           /\ pool' = k.conn.pool
           /\ retryCount' = k.conn.retryCount
           /\ timers' = k.conn.timers
    /\ UNCHANGED <<mockData, reachable, outages, bLast>>
    /\ UNCHANGED clientVars
    /\ UNCHANGED dbVars
    /\ UNCHANGED searchVars
    /\ UNCHANGED inFlightVars

\* the SQL Server stops answering
ServerDown ==
    /\ reachable /\ outages < MaxOutages
    /\ reachable' = FALSE
    /\ outages' = outages + 1
    /\ UNCHANGED <<mockData, isConnected, pool, retryCount, timers, bLast>>
    /\ UNCHANGED clientVars
    /\ UNCHANGED dbVars
    /\ UNCHANGED searchVars
    /\ UNCHANGED inFlightVars

\* the SQL Server answers again
ServerUp ==
    /\ ~reachable
    /\ reachable' = TRUE
    /\ UNCHANGED <<mockData, isConnected, pool, retryCount, timers, outages, bLast>>
    /\ UNCHANGED clientVars
    /\ UNCHANGED dbVars
    /\ UNCHANGED searchVars
    /\ UNCHANGED inFlightVars

\* the update items a caller passes: a stored id, another, one that is not
\* stored; a mutable field and one that is not
UpdateItems ==
    {[id |-> id, field |-> field, value |-> value] :
        id \in {1, 2, 9}, field \in {"SHIFT", "CONTRACTOR"}, value \in {"Day Shift", "Night Shift"}}

RECURSIVE BatchesOfLen(_)
BatchesOfLen(n) ==
    IF n = 0 THEN {<<>>}
    ELSE {Append(b, u) : b \in BatchesOfLen(n - 1), u \in UpdateItems}

Batches == UNION {BatchesOfLen(n) : n \in 0..MaxBatch}

\* the state once startServer has awaited connect(): connected, or not
\* connected with the first retry scheduled
BackendInit ==
    /\ records = SampleData
    /\ pending = << >>
    /\ now = StartTime
    /\ last = NoCall
    /\ generated = << >>
    /\ online = TRUE
    /\ remote = SampleData
    /\ remoteLog = {}
    /\ confirmed = {}
    /\ sRecords = << >>
    /\ sQuery = << >>
    /\ sRanked = << >>
    /\ sResult = << >>
    /\ sDone = FALSE
    /\ sOp = "none"
    /\ sFilters = NoFilters
    /\ sTotal = 0
    /\ mockData = MockData
    /\ reachable \in BOOLEAN
    /\ isConnected = reachable
    /\ pool = IF reachable THEN "pool" ELSE "null"
    /\ retryCount = IF reachable THEN 0 ELSE 1
    /\ timers = IF reachable THEN 0 ELSE 1
    /\ outages = 0
    /\ bLast = NoBackendCall
    /\ InFlightIdle

\* one call of bulkUpdate with any batch
BulkNext ==
    \E updates \in Batches :
        \/ bLast.op = "none" /\ tosBulkUpdate(updates)
        \/ bLast.op = "none" /\ mockBulkUpdate(updates)
        \/ bLast.op = "none" /\ postBulkUpdate(updates)

BulkSpec == BackendInit /\ [][BulkNext]_vars

\* the update items passed while the SQL Server comes and goes
CallItems == {update \in UpdateItems : update.value = "Night Shift"}

\* the calls made of the backend while the SQL Server comes and goes
BackendNext ==
    \/ \E limit \in {1, 2}, offset \in {0, 1} : tosGetAllRecords(limit, offset)
    \/ tosSearchRecords
    \/ \E update \in CallItems : tosUpdateRecord(update.id, update.field, update.value)
    \/ \E update \in CallItems : tosBulkUpdate(<<update>>)
    \/ tosGetContractors
    \/ tosGetStatuses
    \/ \E update \in CallItems : mockBulkUpdate(<<update>>)
    \/ \E update \in CallItems : putTos(update.id, update.field, update.value)
    \/ \E update \in CallItems : postBulkUpdate(<<update>>)
    \/ retryTimer
    \/ ServerDown
    \/ ServerUp

BackendSpec == BackendInit /\ [][BackendNext]_vars

(***************************************************************************)
(* Bulk updates                                                            *)
(***************************************************************************)
\* a bulkUpdate call on the model has returned its results
BulkReturned == bLast.op \in {"bulkUpdate", "mockBulkUpdate"} /\ bLast.outcome = "ok"

\* the item names an id no record has, or a field that may not be edited
FailingItem(update) == update.id \notin DOMAIN SampleData \/ update.field \notin allowedFields

\* the ids of the failing items of a batch, in input order
FailingIds(updates) ==
    LET failing == SelectSeq(updates, FailingItem)
    IN  [i \in DOMAIN failing |-> failing[i].id]

\* C16: for every batch, bulkUpdate of the mock model and of the SQL model
\* returns successful + failed equal to the number of items, and errors holds
\* exactly one entry for each failing item (unknown id or invalid field) and
\* none for the others, in input order.
C16_BulkResultsAccountForItems ==
    BulkReturned =>
        /\ bLast.value.successful + bLast.value.failed = Len(bLast.args)
        /\ bLast.value.failed = Len(bLast.value.errors)
        /\ [i \in DOMAIN bLast.value.errors |-> bLast.value.errors[i].id] = FailingIds(bLast.args)

\* the rows of a store after applying, in order, the items of the batch that
\* do not fail
RECURSIVE AppliedInOrder(_, _)
AppliedInOrder(rows, updates) ==
    IF updates = <<>> THEN rows
    ELSE LET update == Head(updates)
         IN  AppliedInOrder(IF FailingItem(update) THEN rows
                            ELSE [i \in DOMAIN rows |->
                                     IF rows[i].ID = update.id
                                     THEN [rows[i] EXCEPT ![update.field] = update.value]
                                     ELSE rows[i]],
                            Tail(updates))

\* POST /bulk-update has answered a batch in which some items name a field
\* that may not be edited and some do not, with the SQL Server answering
MixedBatchPosted ==
    /\ bLast.op = "POST /bulk-update"
    /\ bLast.up
    /\ \E i \in DOMAIN bLast.args : bLast.args[i].field \notin allowedFields
    /\ \E i \in DOMAIN bLast.args : bLast.args[i].field \in allowedFields

\* C17: POST /tos/bulk-update with a batch in which some items have an
\* invalid field is not rejected as a whole: the valid items are applied and
\* each invalid item is reported in errors.
C17_MixedBatchAppliedPerItem ==
    MixedBatchPosted =>
        /\ bLast.status = 200
        /\ bLast.outcome = "ok"
        /\ remote = AppliedInOrder(SampleData, bLast.args)

\* C18: in bulkUpdate a failing item (unknown id or invalid field) has no
\* effect on the other items: the store afterwards is the store before with
\* exactly the non-failing items applied in input order, for the mock model's
\* array and for the SQL table alike, and the other store is not touched.
C18_FailingItemsLeaveOthersApplied ==
    /\ (bLast.op = "mockBulkUpdate" /\ bLast.outcome = "ok") =>
           /\ mockData = AppliedInOrder(MockData, bLast.args)
           /\ remote = SampleData
    /\ (bLast.op = "bulkUpdate" /\ bLast.outcome = "ok") =>
           /\ remote = AppliedInOrder(SampleData, bLast.args)
           /\ mockData = MockData

\* a batch whose first item fails and whose second item changed the SQL table
C18_AppliedAfterFailingItem ==
    /\ bLast.op = "bulkUpdate" /\ bLast.outcome = "ok"
    /\ Len(bLast.args) = 2
    /\ FailingItem(bLast.args[1])
    /\ ~FailingItem(bLast.args[2])
    /\ remote # SampleData

(***************************************************************************)
(* Immutable fields                                                        *)
(***************************************************************************)
\* the fields of a record that no operation may change
ImmutableFields == {"ID", "CONTRACTOR", "DATE", "STOCK_ID"}

\* the rows hold the same records as at the start, the immutable fields of each unchanged
ImmutableKept(rows, initial) ==
    /\ DOMAIN rows = DOMAIN initial
    /\ \A i \in DOMAIN initial : \A f \in ImmutableFields : rows[i][f] = initial[i][f]

\* C19: after any sequence of updateRecord, bulkUpdate, search,
\* getPendingUpdates and clearPendingUpdate operations no record is created
\* or deleted and every record's ID, CONTRACTOR, DATE and STOCK_ID are the
\* initial ones, in the client's store, in the mock model's array and in the
\* SQL table.
C19_ImmutableFieldsKept ==
    /\ ImmutableKept(records, SampleData)
    /\ ImmutableKept(mockData, MockData)
    /\ ImmutableKept(remote, SampleData)

(***************************************************************************)
(* Fallback to the mock data                                               *)
(***************************************************************************)
\* the operations of tosModel
TosModelOperations ==
    {"getAllRecords", "searchRecords", "updateRecord", "bulkUpdate", "getContractors", "getStatuses"}

\* C20: when the SQL Server is unreachable, every tosModel operation
\* (getAllRecords, searchRecords, updateRecord, bulkUpdate, getContractors,
\* getStatuses) completes with the mock data instead of throwing the
\* failure to its caller.
C20_UnreachableFallsBackToMock ==
    (bLast.op \in TosModelOperations /\ ~bLast.up) =>
        /\ bLast.outcome = "ok"
        /\ bLast.source = "mock"

(***************************************************************************)
(* TOSApiClient and the TOSManager handlers that call it                   *)
(***************************************************************************)
\* the number of TOSApiClient calls made directly in one behaviour
MaxCalls == 1
\* the number of TOSManager handlers started in one behaviour
MaxTasks == 2

\* API_CONFIG.timeout, in ms
ApiTimeout == 10000
\* the timeout of the two /health calls, in ms
HealthTimeout == 5000

\* the methods of TOSApiClient that fetch
ApiMethods ==
    {"searchTOS", "updateTOSRecord", "bulkUpdateTOS", "syncOfflineUpdates", "getAllTOSRecords",
     "getContractors", "getStatuses", "checkConnection", "getSQLServerStatus"}

\* the delay of the setTimeout(() => controller.abort(), ...) a method arms
\* before its fetch; 0 for a fetch without signal
TimeoutOf(method) ==
    CASE method \in {"searchTOS", "updateTOSRecord", "bulkUpdateTOS", "getAllTOSRecords",
                     "getContractors", "getStatuses"} -> ApiTimeout
      [] method \in {"checkConnection", "getSQLServerStatus"} -> HealthTimeout
      [] OTHER -> 0

\* a call awaiting its fetch; task is the handler awaiting the call, 0 for none
Fetching(method, task) ==
    [method |-> method, timeout |-> TimeoutOf(method), state |-> "pending",
     outcome |-> "none", task |-> task]

\* a handler of TOSManager; call is the TOSApiClient call it awaits, 0 for none
Task(op, query, stage, call) == [op |-> op, query |-> query, stage |-> stage, call |-> call]

\* what setFilteredRecords was given: the handler, its query, where the rows came from
Display(op, query, source) == [op |-> op, query |-> query, source |-> source]

\* a TOSApiClient method is called by other code than loadRecords and handleSearch
apiCall(method) ==
    /\ Len(apiCalls) < MaxCalls + MaxTasks
    /\ Len(SelectSeq(apiCalls, LAMBDA c : c.task = 0)) < MaxCalls
    /\ apiCalls' = Append(apiCalls, Fetching(method, 0))
    /\ UNCHANGED <<tasks, filteredRecords, connecting>>
    /\ UNCHANGED dbVars
    /\ UNCHANGED clientVars
    /\ UNCHANGED searchVars
    /\ UNCHANGED backendVars

\* the server answers call i: fetch resolves, clearTimeout, and the method
\* returns the data or throws on !response.ok or !result.success
respond(i, ok) ==
    /\ i \in DOMAIN apiCalls
    /\ apiCalls[i].state = "pending"
    /\ apiCalls' = [apiCalls EXCEPT ![i].state = "settled",
                                    ![i].outcome = IF ok THEN "ok" ELSE "failed"]
    /\ UNCHANGED <<tasks, filteredRecords, connecting>>
    /\ UNCHANGED dbVars
    /\ UNCHANGED clientVars
    /\ UNCHANGED searchVars
    /\ UNCHANGED backendVars

\* the timer of call i fires first: controller.abort() rejects the fetch and
\* the method rethrows (checkConnection returns false)
abortTimer(i) ==
    /\ i \in DOMAIN apiCalls
    /\ apiCalls[i].state = "pending"
    /\ apiCalls[i].timeout > 0
    /\ apiCalls' = [apiCalls EXCEPT ![i].state = "settled", ![i].outcome = "failed"]
    /\ UNCHANGED <<tasks, filteredRecords, connecting>>
    /\ UNCHANGED dbVars
    /\ UNCHANGED clientVars
    /\ UNCHANGED searchVars
    /\ UNCHANGED backendVars

\* a handler starts: the API first if online, else the local database
Starts(op, query, method) ==
    /\ Len(tasks) < MaxTasks
    /\ IF online
       THEN /\ apiCalls' = Append(apiCalls, Fetching(method, Len(tasks) + 1))
            /\ tasks' = Append(tasks, Task(op, query, "api", Len(apiCalls) + 1))
       ELSE /\ tasks' = Append(tasks, Task(op, query, "local", 0))
            /\ UNCHANGED apiCalls
    /\ UNCHANGED <<filteredRecords, connecting>>
    /\ UNCHANGED dbVars
    /\ UNCHANGED clientVars
    /\ UNCHANGED searchVars
    /\ UNCHANGED backendVars

\* loadRecords()
loadRecords == Starts("loadRecords", "", "getAllTOSRecords")

\* handleSearch(query): a blank query shows all records at once
handleSearch(query) ==
    IF query = ""
    THEN /\ filteredRecords' = Display("handleSearch", "", "records")
         /\ UNCHANGED <<apiCalls, tasks, connecting>>
         /\ UNCHANGED dbVars
         /\ UNCHANGED clientVars
         /\ UNCHANGED searchVars
         /\ UNCHANGED backendVars
    ELSE Starts("handleSearch", query, "searchTOS")

\* the API call a handler awaits has settled: its rows are displayed, or the
\* catch block turns to the local database
apiSettled(t) ==
    /\ t \in DOMAIN tasks
    /\ tasks[t].stage = "api"
    /\ apiCalls[tasks[t].call].state = "settled"
    /\ IF apiCalls[tasks[t].call].outcome = "ok"
       THEN /\ tasks' = [tasks EXCEPT ![t].stage = "done"]
            /\ filteredRecords' = Display(tasks[t].op, tasks[t].query, "api")
       ELSE /\ tasks' = [tasks EXCEPT ![t].stage = "local"]
            /\ UNCHANGED filteredRecords
    /\ UNCHANGED <<apiCalls, connecting>>
    /\ UNCHANGED dbVars
    /\ UNCHANGED clientVars
    /\ UNCHANGED searchVars
    /\ UNCHANGED backendVars

\* tosDatabase.getAllRecords() or searchRecords(query) has resolved for a handler
localSettled(t) ==
    /\ t \in DOMAIN tasks
    /\ tasks[t].stage = "local"
    /\ tasks' = [tasks EXCEPT ![t].stage = "done"]
    /\ filteredRecords' = Display(tasks[t].op, tasks[t].query, "local")
    /\ UNCHANGED <<apiCalls, connecting>>
    /\ UNCHANGED dbVars
    /\ UNCHANGED clientVars
    /\ UNCHANGED searchVars
    /\ UNCHANGED backendVars

\* the filterRecords effect after the search box changed to query
filterRecords(query) ==
    /\ filteredRecords # Display("filterRecords", query, "records")
    /\ filteredRecords' = Display("filterRecords", query, "records")
    /\ UNCHANGED <<apiCalls, tasks, connecting>>
    /\ UNCHANGED dbVars
    /\ UNCHANGED clientVars
    /\ UNCHANGED searchVars
    /\ UNCHANGED backendVars

\* the queries typed
SearchInputs == {"", "A", "B"}

ManagerNext ==
    \/ \E method \in ApiMethods : apiCall(method)
    \/ \E i \in 1..(MaxCalls + MaxTasks), ok \in BOOLEAN : respond(i, ok)
    \/ \E i \in 1..(MaxCalls + MaxTasks) : abortTimer(i)
    \/ loadRecords
    \/ \E query \in SearchInputs : handleSearch(query)
    \/ \E t \in 1..MaxTasks : apiSettled(t)
    \/ \E t \in 1..MaxTasks : localSettled(t)
    \/ \E query \in SearchInputs : filterRecords(query)
    \/ GoOnline
    \/ GoOffline

ManagerSpec == Init /\ [][ManagerNext]_vars

\* timers fire and the continuations of settled promises run; nothing makes
\* the server answer
FairManagerSpec ==
    /\ ManagerSpec
    /\ \A i \in 1..(MaxCalls + MaxTasks) : WF_vars(abortTimer(i))
    /\ \A t \in 1..MaxTasks : WF_vars(apiSettled(t))
    /\ \A t \in 1..MaxTasks : WF_vars(localSettled(t))

PositionalDistance(a, b) ==
    Cardinality({i \in 0..(Max(Len(a), Len(b)) - 1) : CharAt(a, i) # CharAt(b, i)})

\* the record matches none of the levels 1 to 4 for the normalised query
InNoTier(record, query) ==
    /\ ToLowerCase(record.STOCK_ID) # query
    /\ ~StartsWith(ToLowerCase(record.STOCK_ID), query)
    /\ ~Includes(ToLowerCase(record.STOCK_ID), query)
    /\ ~Includes(ToLowerCase(record.CONTRACTOR), query)

ReturnedLocally(record) == \E j \in DOMAIN sResult : sResult[j] = record

LocalSearched == sDone /\ sOp = "tosDatabase" /\ Trim(sQuery) # <<>>

\* C22 as claimed: after a non-blank tosDatabase.searchRecords, a record that
\* matches none of the levels 1 to 4 is in the returned list exactly when the
\* positional distance between its lower-cased STOCK_ID and the query is at
\* most 2.
C22_FuzzyIffDistance ==
    LocalSearched =>
        \A i \in DOMAIN sRecords :
            LET query == Trim(ToLowerCase(sQuery))
            IN  InNoTier(sRecords[i], query) =>
                    (ReturnedLocally(sRecords[i])
                        <=> PositionalDistance(ToLowerCase(sRecords[i].STOCK_ID), query) <= 2)

\* C22 as amended: after a non-blank tosDatabase.searchRecords, a record that
\* matches none of the levels 1 to 4 is in the returned list exactly when the
\* normalised query is longer than 2 characters and the positional distance
\* between its lower-cased STOCK_ID and the query is at most 2.
C22_FuzzyIffDistanceAndLongQuery ==
    LocalSearched =>
        \A i \in DOMAIN sRecords :
            LET query == Trim(ToLowerCase(sQuery))
            IN  InNoTier(sRecords[i], query) =>
                    (ReturnedLocally(sRecords[i])
                        <=> /\ Len(query) > 2
                            /\ PositionalDistance(ToLowerCase(sRecords[i].STOCK_ID), query) <= 2)

\* C22 witness: a search returned a record of no level 1 to 4 at distance 2
\* of a three-character query and left out another one farther away
C22_FuzzyMatchReturned ==
    /\ LocalSearched
    /\ \E i, k \in DOMAIN sRecords :
          LET query == Trim(ToLowerCase(sQuery))
          IN  /\ InNoTier(sRecords[i], query)
              /\ InNoTier(sRecords[k], query)
              /\ Len(query) = 3
              /\ PositionalDistance(ToLowerCase(sRecords[i].STOCK_ID), query) = 2
              /\ ReturnedLocally(sRecords[i])
              /\ PositionalDistance(ToLowerCase(sRecords[k].STOCK_ID), query) > 2
              /\ ~ReturnedLocally(sRecords[k])

\* ---------------------------------------------------------------------------
\* The SQL search against the local search

\* the entries tosDatabase.searchRecords ranks at levels 1 to 4 for the query
LocalTiers1To4(stockId, allRecords) ==
    SelectSeq(RankedResults(stockId, allRecords), LAMBDA item : item.priority <= 4)

SqlSearched == sDone /\ sOp = "tosModel" /\ Trim(sQuery) # <<>> /\ sFilters = NoFilters

\* C23: for a non-blank query without filters and with a limit no smaller than
\* the record set, the SQL search returns exactly the records the local search
\* ranks at levels 1 to 4, in the same order and each at the same level.
C23_SqlReturnsLocalTiers ==
    SqlSearched =>
        LET local == LocalTiers1To4(sQuery, sRecords)
        IN  /\ Len(sResult) = Len(local)
            /\ \A i \in DOMAIN sResult :
                  /\ sResult[i].ID = local[i].record.ID
                  /\ SqlCase(sResult[i], sQuery) = local[i].priority

\* ---------------------------------------------------------------------------
\* The suggestion list against the local search

\* C24: for a non-blank value, the suggestion list of EnhancedSearch is the
\* first 8 entries of the list tosDatabase.searchRecords returns for the same
\* value and records.
C24_SuggestionsAreLocalPrefix ==
    (sDone /\ sOp = "EnhancedSearch" /\ Trim(sQuery) # <<>>) =>
        sResult = Slice(SearchResult(sQuery, sRecords), 0, SuggestionCap)

\* ---------------------------------------------------------------------------
\* Case and surrounding white space of the query

\* C25: for a non-blank query q, tosDatabase.searchRecords and
\* mockTosModel.searchRecords each return for q the list they return for q
\* trimmed and lower-cased, and the records returned are the stored ones,
\* with their own casing.
C25_QueryNormalised ==
    /\ (sDone /\ sOp = "tosDatabase" /\ Trim(sQuery) # <<>>) =>
          /\ sResult = SearchResult(Trim(ToLowerCase(sQuery)), sRecords)
          /\ \A i \in DOMAIN sResult : \E k \in DOMAIN sRecords : sResult[i] = sRecords[k]
    /\ (sDone /\ sOp = "mockTosModel" /\ Trim(sQuery) # <<>>) =>
          /\ sResult = MockSearchResult(sRecords, Trim(ToLowerCase(sQuery)), sFilters).records
          /\ \A i \in DOMAIN sResult : \E k \in DOMAIN sRecords :
                /\ sResult[i].ID = sRecords[k].ID
                /\ sResult[i].STOCK_ID = sRecords[k].STOCK_ID
                /\ sResult[i].CONTRACTOR = sRecords[k].CONTRACTOR

\* ---------------------------------------------------------------------------
\* The old and new value of a PendingUpdate

\* the PendingUpdates built and added so far for the field of the record, as
\* positions of the log of built ids
EditsOf(recordId, field) ==
    {i \in DOMAIN generated :
        /\ generated[i].added
        /\ generated[i].field = field
        /\ StartsWith(generated[i].id, ToDigits(recordId) \o <<45>>)}

\* the id of the latest edit of the field of the record
LatestEdit(recordId, field) ==
    generated[CHOOSE i \in EditsOf(recordId, field) : \A j \in EditsOf(recordId, field) : j <= i].id

\* the newValue of the latest edit, while it is queued, is the field's value
LatestNewValueIsCurrent ==
    \A recordId \in DOMAIN records, field \in FieldInputs :
        (EditsOf(recordId, field) # {} /\ LatestEdit(recordId, field) \in DOMAIN pending)
            => pending[LatestEdit(recordId, field)].newValue = records[recordId][field]

\* the PendingUpdate a resolved updateRecord adds holds the value the field had
\* and the value written, and its oldValue is the newValue of the edit before it
EditRecorded ==
    (UpdateSettles /\ last'.result = "resolved") =>
        LET added == pending'[last'.key]
        IN  /\ added.oldValue = records[last'.id][last'.field]
            /\ added.newValue = last'.value
            /\ added.newValue = records'[last'.id][last'.field]
            /\ (EditsOf(last'.id, last'.field) # {}
                   /\ LatestEdit(last'.id, last'.field) \in DOMAIN pending)
                  => added.oldValue = pending[LatestEdit(last'.id, last'.field)].newValue

\* C26: every PendingUpdate tosDatabase.updateRecord adds has as oldValue the
\* field's value before the edit and as newValue the value written; over
\* successive edits of one field of one record each oldValue is the newValue
\* of the edit before, and the newValue of the latest edit is the field's
\* current value.
C26_OldValueChain == []LatestNewValueIsCurrent /\ [][EditRecorded]_vars

\* C26 witness: a second edit of the same field of the same record resolved,
\* its oldValue the value the first edit wrote and not the initial one
C26_SecondEditChained ==
    /\ UpdateResolved
    /\ Len(generated) = 2 /\ generated[1].added /\ generated[2].added
    /\ generated[1].id # generated[2].id
    /\ {generated[1].id, generated[2].id} \subseteq DOMAIN pending
    /\ pending[generated[1].id].recordId = pending[generated[2].id].recordId
    /\ pending[generated[1].id].field = pending[generated[2].id].field
    /\ pending[generated[2].id].oldValue = pending[generated[1].id].newValue
    /\ pending[generated[2].id].oldValue # SampleData[last.id][last.field]
    /\ pending[generated[2].id].newValue # pending[generated[2].id].oldValue

\* ---------------------------------------------------------------------------
\* updateRecord over the two object stores

\* a rejected updateRecord leaves both stores as they were
RejectionChangesNothing ==
    (UpdateSettles /\ last'.result # "resolved") => (records' = records /\ pending' = pending)

\* a resolved updateRecord has written the value and added one PendingUpdate for it
ResolutionWritesBoth ==
    (UpdateSettles /\ last'.result = "resolved") =>
        /\ DOMAIN records' = DOMAIN records
        /\ records'[last'.id][last'.field] = last'.value
        /\ \A k \in DOMAIN records \ {last'.id} : records'[k] = records[k]
        /\ DOMAIN pending' \ DOMAIN pending = {last'.key}
        /\ \A k \in DOMAIN pending : pending'[k] = pending[k]
        /\ pending'[last'.key].recordId = last'.id
        /\ pending'[last'.key].field = last'.field
        /\ pending'[last'.key].newValue = last'.value

\* a step that changes a stored record is a resolved updateRecord
RecordChangeIsQueued ==
    (records' # records) => (UpdateSettles /\ last'.result = "resolved")

\* C27: tosDatabase.updateRecord changes the record store and the pending
\* store together or not at all: a call that rejects (record missing, put
\* error, add error on a taken id) leaves both unchanged, a call that resolves
\* has written the new value and added exactly one PendingUpdate, and no step
\* changes a stored record without adding its PendingUpdate.
C27_UpdateIsAtomic ==
    [][RejectionChangesNothing /\ ResolutionWritesBoth /\ RecordChangeIsQueued]_vars

\* C27 witness: an updateRecord was rejected by the add on a taken id, and the
\* record still holds the value of the edit queued before, not the rejected one
C27_RejectedAddRolledBack ==
    /\ last.op = "updateRecord" /\ last.result = "ConstraintError"
    /\ last.key \in DOMAIN pending
    /\ records[last.id][last.field] = pending[last.key].newValue
    /\ records[last.id][last.field] # last.value

\* ---------------------------------------------------------------------------
\* Two searches in flight

\* C28: when handleSearch was called with one query and then, before that
\* search completed or after, with another, both sent to the server, and both
\* have completed, the filteredRecords the server's answers left on display
\* are those of the second query, whichever answer arrived first.
C28_LatestSearchDisplayed ==
    ( /\ Len(tasks) = 2
      /\ \A t \in 1..2 : tasks[t].op = "handleSearch" /\ tasks[t].stage = "done"
      /\ \A t \in 1..2 : tasks[t].call # 0
      /\ tasks[1].query # tasks[2].query
      /\ filteredRecords.op = "handleSearch"
      /\ filteredRecords.source = "api"
      /\ filteredRecords.query \in {tasks[1].query, tasks[2].query} )
        => filteredRecords.query = tasks[2].query

(***************************************************************************)
(* DatabaseConnection with its connect() calls in flight: a call waits in  *)
(* sql.connect while other calls start, settle and set retry timers.       *)
(***************************************************************************)
\* the connect() chains (calls in flight and retry timers set) at one time
MaxChains == 3

\* what a step of the connection leaves alone
ConnFrame ==
    /\ UNCHANGED <<mockData, bLast, apiCalls, tasks, filteredRecords>>
    /\ UNCHANGED clientVars
    /\ UNCHANGED dbVars
    /\ UNCHANGED searchVars

\* ensureConnection() called by a request: connected, it goes on to getPool();
\* not connected, it calls connect() and waits
ensureConnection ==
    /\ ~isConnected
    /\ connecting + timers < MaxChains
    /\ connecting' = connecting + 1
    /\ UNCHANGED <<isConnected, pool, retryCount, timers, reachable, outages>>
    /\ ConnFrame

\* a retry timer fires: setTimeout's callback calls connect()
retryTimerFires ==
    /\ timers > 0
    /\ timers' = timers - 1
    /\ connecting' = connecting + 1
    /\ UNCHANGED <<isConnected, pool, retryCount, reachable, outages>>
    /\ ConnFrame

\* sql.connect settles for one waiting connect(): the rest of the try block,
\* or the catch block, runs without interruption
connectSettles ==
    /\ connecting > 0
    /\ connecting' = connecting - 1
    /\ LET k == Connect(Conn, reachable)
       IN  /\ isConnected' = k.conn.isConnected
           /\ pool' = k.conn.pool
           /\ retryCount' = k.conn.retryCount
           /\ timers' = k.conn.timers
    /\ UNCHANGED <<reachable, outages>>
    /\ ConnFrame

\* disconnect(): with a pool, close it and clear the flag; the pool stays referenced
disconnect ==
    /\ pool # "null"
    /\ isConnected' = FALSE
    /\ UNCHANGED <<pool, retryCount, timers, reachable, outages, connecting>>
    /\ ConnFrame

ConnNext ==
    \/ ensureConnection
    \/ retryTimerFires
    \/ connectSettles
    \/ disconnect
    \/ ServerDown
    \/ ServerUp

\* from the state in which startServer()'s connect() has settled and the server
\* listens: requests, retry timers and the connect() calls they make
ConnSpec == BackendInit /\ [][ConnNext]_vars

\* C29: in every state of DatabaseConnection the retry counter is between 0
\* and maxRetries and a set connected flag comes with a pool, however many
\* connect() calls (the startup call, retry timers, calls from requests) are
\* under way at once; and a connect() that succeeds leaves the counter at 0.
C29_RetryCountBounded ==
    /\ [](/\ 0 <= retryCount /\ retryCount <= maxRetries
          /\ isConnected => pool # "null")
    /\ [][(connecting' = connecting - 1 /\ reachable)
             => (retryCount' = 0 /\ isConnected' /\ pool' # "null")]_vars

\* C29 witness: the counter is at maxRetries while two connect() calls wait
\* in sql.connect
C29_TwoConnectsAtTheLimit ==
    /\ retryCount = maxRetries
    /\ connecting >= 2
    /\ ~isConnected

(***************************************************************************)
(* The two calculateSimpleDistance functions on the same pair of strings.  *)
(***************************************************************************)
\* the length of the strings compared
MaxDistanceLen == 4

\* the strings over a and b up to MaxDistanceLen
RECURSIVE DistanceStringsOfLen(_)
DistanceStringsOfLen(n) ==
    IF n = 0 THEN {<<>>}
    ELSE {Append(str, c) : str \in DistanceStringsOfLen(n - 1), c \in {97, 98}}

DistanceStrings == UNION {DistanceStringsOfLen(n) : n \in 0..MaxDistanceLen}

\* a record with some STOCK_ID and a query, neither compared yet
DistanceInit ==
    /\ records = SampleData
    /\ pending = << >>
    /\ now = StartTime
    /\ last = NoCall
    /\ generated = << >>
    /\ online = TRUE
    /\ remote = SampleData
    /\ remoteLog = {}
    /\ confirmed = {}
    /\ sRecords \in {WithIds(<<[STOCK_ID |-> str, CONTRACTOR |-> <<>>]>>) : str \in DistanceStrings}
    /\ sQuery \in DistanceStrings
    /\ sRanked = << >>
    /\ sResult = << >>
    /\ sDone = FALSE
    /\ sOp = "none"
    /\ sFilters = NoFilters
    /\ sTotal = 0
    /\ BackendIdle /\ InFlightIdle

\* the call of a distance function leaves its result in sTotal
DistanceCalled(op, distance) ==
    /\ ~sDone
    /\ sTotal' = distance
    /\ sOp' = op
    /\ sDone' = TRUE
    /\ UNCHANGED <<sRecords, sQuery, sRanked, sResult, sFilters>>
    /\ UNCHANGED dbVars
    /\ UNCHANGED clientVars
    /\ UNCHANGED backendVars
    /\ UNCHANGED inFlightVars

\* this.calculateSimpleDistance(recordStockId, query) of TOSDatabase
localDistance ==
    DistanceCalled("TOSDatabase", calculateSimpleDistance(sRecords[1].STOCK_ID, sQuery))

\* calculateSimpleDistance(stockId, query) of EnhancedSearch
enhancedDistance ==
    DistanceCalled("EnhancedSearch", EnhancedDistance(sRecords[1].STOCK_ID, sQuery))

DistanceNext ==
    \/ localDistance
    \/ enhancedDistance

DistanceSpec == DistanceInit /\ [][DistanceNext]_vars

\* C30: for every pair of strings, calculateSimpleDistance of the local search
\* returns at most 2 exactly when calculateSimpleDistance of EnhancedSearch
\* returns at most 2.
C30_DistancesAgreeAtThreshold ==
    /\ (sDone /\ sOp = "TOSDatabase") =>
          ((sTotal <= 2) <=> (EnhancedDistance(sRecords[1].STOCK_ID, sQuery) <= 2))
    /\ (sDone /\ sOp = "EnhancedSearch") =>
          ((sTotal <= 2) <=> (calculateSimpleDistance(sRecords[1].STOCK_ID, sQuery) <= 2))

\* C30 witness: strings whose lengths differ by 3, for which the local
\* function returned 99 without comparing, where EnhancedSearch counts 3
C30_LengthExitAgrees ==
    /\ sDone /\ sOp = "TOSDatabase"
    /\ Abs(Len(sRecords[1].STOCK_ID) - Len(sQuery)) = 3
    /\ sTotal = 99
    /\ EnhancedDistance(sRecords[1].STOCK_ID, sQuery) = 3

====
